---------------------------- MODULE Spec2Model ----------------------------
(***************************************************************************)
(* Model of the discount optimisation engine of routes/logistics.js:       *)
(* fleet sizing, the margin constraint, the chaotic initialisation, the    *)
(* pattern search and the POST /api/logistics/optimize handler.            *)
(*                                                                         *)
(* Numbers.  The code computes in IEEE doubles; the model computes in      *)
(* exact fixed point.  Discounts, the chaos state c and the step sizes     *)
(* delta are integers counting 1/Scale; targetMargin counts 1/MarginScale; *)
(* money, volume and weight are integers in their own units.  A value of   *)
(* marginConstraint is therefore the code's value times MarginScale*Scale  *)
(* and a value of objective is the code's value times Scale: signs and     *)
(* comparisons are those of exact real arithmetic.  Products that leave    *)
(* the grid (logisticMap, maxDiscount * c) are rounded down.               *)
(* Values that JavaScript can make non-finite (the truck count, the        *)
(* transport cost, the margin constraint) are records [k, v] with k one of *)
(* "num", "inf" (v = 1 or -1) and "nan".                                   *)
(***************************************************************************)
EXTENDS Integers, Sequences, FiniteSets, TLC

VARIABLES
    pc,                  \* position of the request / of the function call
    req,                 \* req.body and req.user.role of the optimize request
    db,                  \* the Product collection: id -> stored fields
    products,            \* the handler's local `products`
    numTrucks,           \* the handler's local `numTrucks`
    p,                   \* the arguments shared by both search stages
    c,                   \* chaoticInitialization: chaos state
    k,                   \* chaoticInitialization: main-loop counter
    bestDiscounts,       \* chaoticInitialization: best feasible vector or null
    bestObjectiveValue,  \* chaoticInitialization: its objective
    attempt,             \* chaoticInitialization: fallback attempt counter
    initialDiscounts,    \* value returned by chaoticInitialization
    discounts,           \* patternSearch: current vector
    delta,               \* patternSearch: step sizes
    iteration,           \* patternSearch: loop counter
    res,                 \* the response sent (status, msg, body)
    stages,              \* history: the stages of the handler that have run
    sampled,             \* history: feasible candidates of the main loop
    fn                   \* call record of a pure function under test

vars == <<pc, req, db, products, numTrucks, p, c, k, bestDiscounts,
          bestObjectiveValue, attempt, initialDiscounts, discounts, delta,
          iteration, res, stages, sampled, fn>>

-----------------------------------------------------------------------------
(* Fixed-point grids *)

\* 1/Scale is the resolution of discounts: 1/20 is the initial step 0.05 and
\* 512 = 2^9 lets the step be halved exactly until it is below epsilon.
Scale == 20 * 512

\* targetMargin is counted in 1/MarginScale.
MarginScale == 10

-----------------------------------------------------------------------------
(* JavaScript numbers that may be non-finite *)

Num(v) == [k |-> "num", v |-> v]
PosInfinity == [k |-> "inf", v |-> 1]
NegInfinity == [k |-> "inf", v |-> -1]
NaN == [k |-> "nan", v |-> 0]

\* x >= 0 and x < 0 as JavaScript evaluates them (false on NaN)
GE0(x) == (x.k = "num" /\ x.v >= 0) \/ (x.k = "inf" /\ x.v > 0)
LT0(x) == (x.k = "num" /\ x.v < 0) \/ (x.k = "inf" /\ x.v < 0)

\* x > y for a finite x: objValue > bestObjectiveValue
GreaterThan(x, y) == (y.k = "num" /\ x > y.v) \/ (y.k = "inf" /\ y.v < 0)

\* Math.max of two numbers
MathMax(x, y) ==
    IF x.k = "nan" \/ y.k = "nan" THEN NaN
    ELSE IF x.k = "inf" /\ x.v > 0 THEN x
    ELSE IF y.k = "inf" /\ y.v > 0 THEN y
    ELSE IF x.k = "inf" THEN y
    ELSE IF y.k = "inf" THEN x
    ELSE IF x.v >= y.v THEN x ELSE y

\* Math.ceil(a / b) for integers a, b
CeilDiv(a, b) ==
    IF b > 0 THEN Num(-((-a) \div b))
    ELSE IF b < 0 THEN Num(-(a \div (-b)))
    ELSE IF a > 0 THEN PosInfinity
    ELSE IF a < 0 THEN NegInfinity
    ELSE NaN

\* Number.MAX_VALUE scaled down to the model's numbers: a result of larger
\* magnitude is an infinity, as in IEEE double arithmetic
MaxValue == 10000

Abs(n) == IF n < 0 THEN -n ELSE n

\* a * b for finite a, b, with results beyond max an infinity
JsProduct(a, b, max) ==
    IF a = 0 \/ b = 0 THEN Num(0)
    ELSE IF Abs(a) > max \div Abs(b)
         THEN IF (a > 0) = (b > 0) THEN PosInfinity ELSE NegInfinity
    ELSE Num(a * b)

\* x + y, with results beyond max an infinity
JsAdd(x, y, max) ==
    IF x.k = "nan" \/ y.k = "nan" THEN NaN
    ELSE IF x.k = "inf" /\ y.k = "inf" THEN IF x.v = y.v THEN x ELSE NaN
    ELSE IF x.k = "inf" THEN x
    ELSE IF y.k = "inf" THEN y
    ELSE IF y.v > 0 /\ x.v > max - y.v THEN PosInfinity
    ELSE IF y.v < 0 /\ x.v < (-max) - y.v THEN NegInfinity
    ELSE Num(x.v + y.v)

\* -x
JsNeg(x) == IF x.k = "nan" THEN NaN ELSE [k |-> x.k, v |-> -x.v]

RECURSIVE JsSum(_, _, _)
\* the sum of the numbers f[1..n], accumulated in index order from 0
JsSum(f, n, max) ==
    IF n = 0 THEN Num(0)
    ELSE CHOOSE r \in {JsAdd(s, t, max) : s \in {JsSum(f, n - 1, max)}, t \in {f[n]}} : TRUE

\* Math.ceil(x / b) for a number x and an integer b
CeilQuotient(x, b) ==
    IF x.k = "num" THEN CeilDiv(x.v, b)
    ELSE IF x.k = "nan" THEN NaN
    ELSE IF b >= 0 THEN x ELSE JsNeg(x)

\* x * m for a positive finite m
Times(x, m) == IF x.k = "num" THEN JsProduct(x.v, m, MaxValue) ELSE x

null == [isNull |-> TRUE, v |-> <<>>]
Vec(v) == [isNull |-> FALSE, v |-> v]

-----------------------------------------------------------------------------
(* Pure functions of routes/logistics.js *)

RECURSIVE SumTo(_, _)
\* sum of f[1..n], accumulated in index order like the code's loops
SumTo(f, n) == IF n = 0 THEN 0 ELSE SumTo(f, n - 1) + f[n]

calculateTrucksRequired_NoCeil(quantities, volumePerUnit, weightPerUnit, truckVolume, truckWeight) ==
    LET totalVolume == SumTo([i \in 1..Len(quantities) |-> quantities[i] * volumePerUnit[i]], Len(quantities))
        totalWeight == SumTo([i \in 1..Len(quantities) |-> quantities[i] * weightPerUnit[i]], Len(quantities))
        floorDiv(a, b) == IF b > 0 THEN Num(a \div b) ELSE CeilDiv(a, b)
    IN  MathMax(floorDiv(totalVolume, truckVolume), floorDiv(totalWeight, truckWeight))

calculateTrucksRequired_VolumeOnly(quantities, volumePerUnit, weightPerUnit, truckVolume, truckWeight) ==
    LET totalVolume == SumTo([i \in 1..Len(quantities) |-> quantities[i] * volumePerUnit[i]], Len(quantities))
    IN  CeilDiv(totalVolume, truckVolume)

calculateTrucksRequired(quantities, volumePerUnit, weightPerUnit, truckVolume, truckWeight) ==
    LET n == Len(quantities)
        totalVolume == JsSum([i \in 1..n |-> JsProduct(quantities[i], volumePerUnit[i], MaxValue)],
                             n, MaxValue)
        totalWeight == JsSum([i \in 1..n |-> JsProduct(quantities[i], weightPerUnit[i], MaxValue)],
                             n, MaxValue)
    IN  CHOOSE r \in {MathMax(CeilQuotient(v, truckVolume), CeilQuotient(w, truckWeight)) :
                          v \in {totalVolume}, w \in {totalWeight}} : TRUE

logisticMap(x) == (4 * x * (Scale - x)) \div Scale

\* transportCost is a JavaScript number (record); the result is one too,
\* scaled by MarginScale * Scale.
marginConstraint_PlusDiscount(d, quantities, retailPrices, supplierCosts, operationalCosts, targetMargin, transportCost) ==
    LET term == [i \in 1..Len(d) |->
                   quantities[i] * ((MarginScale - targetMargin) * retailPrices[i] * (Scale + d[i])
                                    - (supplierCosts[i] + operationalCosts[i]) * MarginScale * Scale)]
        sum == SumTo(term, Len(d))
    IN  Num(sum - transportCost.v * MarginScale * Scale)

marginConstraint_NoTransport(d, quantities, retailPrices, supplierCosts, operationalCosts, targetMargin, transportCost) ==
    LET term == [i \in 1..Len(d) |->
                   quantities[i] * ((MarginScale - targetMargin) * retailPrices[i] * (Scale - d[i])
                                    - (supplierCosts[i] + operationalCosts[i]) * MarginScale * Scale)]
    IN  Num(SumTo(term, Len(d)))

marginConstraint(d, quantities, retailPrices, supplierCosts, operationalCosts, targetMargin, transportCost) ==
    LET max == MaxValue * MarginScale * Scale
        term == [i \in 1..Len(d) |->
                   JsProduct(quantities[i],
                             (MarginScale - targetMargin) * retailPrices[i] * (Scale - d[i])
                                - (supplierCosts[i] + operationalCosts[i]) * MarginScale * Scale,
                             max)]
        sum == JsSum(term, Len(d), max)
        cost == IF transportCost.k = "num"
                THEN JsProduct(transportCost.v, MarginScale * Scale, max)
                ELSE transportCost
    IN  CHOOSE r \in {JsAdd(s, JsNeg(t), max) : s \in {sum}, t \in {cost}} : TRUE

\* the quantity-weighted total discount with its sign turned
objective_Negated(d, quantities) ==
    -SumTo([i \in 1..Len(d) |-> quantities[i] * d[i]], Len(d))

objective(d, quantities) ==
    SumTo([i \in 1..Len(d) |-> quantities[i] * d[i]], Len(d))

clamp(x, lower, upper) ==
    LET m == IF x >= lower THEN x ELSE lower
    IN  IF m <= upper THEN m ELSE upper

-----------------------------------------------------------------------------
(* Bounds of the model *)

MaxLines == 2        \* order lines per call
MaxQty == 2          \* largest quantity drawn
MaxUnit == 2         \* largest volume / weight per unit drawn
MaxCap == 3          \* largest truck capacity drawn

-----------------------------------------------------------------------------
(* Values of the variables a specification does not use *)

NoReq == [role |-> "none"]
NoCall == [name |-> "none"]
NoParams == [set |-> FALSE]
NoBody == [success |-> FALSE]
NoRes == [status |-> 0, msg |-> "", body |-> NoBody]

RouteIdle ==
    /\ req = NoReq
    /\ db = <<>>
    /\ products = <<>>
    /\ numTrucks = NaN
    /\ res = NoRes
    /\ stages = {}

SearchIdle ==
    /\ p = NoParams
    /\ c = 0
    /\ k = 0
    /\ bestDiscounts = null
    /\ bestObjectiveValue = NegInfinity
    /\ attempt = 0
    /\ initialDiscounts = null
    /\ discounts = <<>>
    /\ delta = <<>>
    /\ iteration = 0
    /\ sampled = {}

routeVars == <<req, db, products, numTrucks, res, stages>>
searchVars == <<p, c, k, bestDiscounts, bestObjectiveValue, attempt,
                initialDiscounts, discounts, delta, iteration, sampled>>

-----------------------------------------------------------------------------
(* SpecPure: calculateTrucksRequired and marginConstraint called on inputs   *)
(* drawn from bounded sets.                                                  *)

SeqsUpTo(S, n) == UNION {[1..m -> S] : m \in 0..n}

\* one order line of the fleet sizer: quantity, volume and weight per unit
FleetLines == [q : 1..MaxQty, vol : 1..MaxUnit, wt : 1..MaxUnit]

FleetCalls ==
    {[name |-> "calculateTrucksRequired",
      quantities |-> [i \in 1..Len(ls) |-> ls[i].q],
      volumePerUnit |-> [i \in 1..Len(ls) |-> ls[i].vol],
      weightPerUnit |-> [i \in 1..Len(ls) |-> ls[i].wt],
      truckVolume |-> tv, truckWeight |-> tw,
      ret |-> NaN] : ls \in SeqsUpTo(FleetLines, MaxLines), tv \in -1..MaxCap, tw \in -1..MaxCap}

\* cost profiles of an order line: quantity, retail price, supplier cost,
\* operational cost (money in integer units)
CostProfiles ==
    {[q |-> 1, rp |-> 10, sc |-> 7, oc |-> 0],
     [q |-> 2, rp |-> 10, sc |-> 5, oc |-> 1],
     [q |-> 1, rp |-> 20, sc |-> 14, oc |-> 5],
     [q |-> MaxQty + 1, rp |-> 100, sc |-> 70, oc |-> 5]}

\* discounts drawn for a direct call of marginConstraint
DiscountGrid == {0, 1, Scale \div 20, Scale \div 2, Scale}

TargetMargins == {0, 2, MarginScale \div 2, MarginScale}

TransportCosts == {0, 1, 3}

MarginCalls ==
    {[name |-> "marginConstraint",
      discounts |-> d,
      quantities |-> [i \in 1..Len(ls) |-> ls[i].q],
      retailPrices |-> [i \in 1..Len(ls) |-> ls[i].rp],
      supplierCosts |-> [i \in 1..Len(ls) |-> ls[i].sc],
      operationalCosts |-> [i \in 1..Len(ls) |-> ls[i].oc],
      targetMargin |-> tm, transportCost |-> Num(T),
      i |-> 0, h |-> 0, ret |-> NaN, retRaised |-> NaN, retRaised2 |-> NaN] :
        ls \in SeqsUpTo(CostProfiles, MaxLines) \ {<<>>},
        d \in SeqsUpTo(DiscountGrid, MaxLines) \ {<<>>},
        tm \in TargetMargins, T \in TransportCosts}

InitPure ==
    /\ pc = "call"
    /\ fn \in FleetCalls \cup {m \in MarginCalls : Len(m.discounts) = Len(m.quantities)}
    /\ RouteIdle
    /\ SearchIdle

CallTrucks ==
    /\ pc = "call"
    /\ fn.name = "calculateTrucksRequired"
    /\ fn' = [fn EXCEPT !.ret = calculateTrucksRequired(fn.quantities, fn.volumePerUnit,
                                   fn.weightPerUnit, fn.truckVolume, fn.truckWeight)]
    /\ pc' = "returned"
    /\ UNCHANGED <<routeVars, searchVars>>

MC(d, f) == marginConstraint(d, f.quantities, f.retailPrices, f.supplierCosts,
                             f.operationalCosts, f.targetMargin, f.transportCost)

\* marginConstraint evaluated at d, at d with d[i] raised by h, and at d with
\* d[i] raised by 2h
CallMargin ==
    /\ pc = "call"
    /\ fn.name = "marginConstraint"
    /\ \E i \in 1..Len(fn.discounts), h \in {1, Scale \div 20} :
          fn' = [fn EXCEPT !.i = i, !.h = h,
                           !.ret = MC(fn.discounts, fn),
                           !.retRaised = MC([fn.discounts EXCEPT ![i] = @ + h], fn),
                           !.retRaised2 = MC([fn.discounts EXCEPT ![i] = @ + 2 * h], fn)]
    /\ pc' = "returned"
    /\ UNCHANGED <<routeVars, searchVars>>

NextPure == CallTrucks \/ CallMargin

SpecPure == InitPure /\ [][NextPure]_vars

-----------------------------------------------------------------------------
(* Claims about the fleet sizer *)

FleetReturned == pc = "returned" /\ fn.name = "calculateTrucksRequired"

TotalVolume == SumTo([i \in 1..Len(fn.quantities) |-> fn.quantities[i] * fn.volumePerUnit[i]], Len(fn.quantities))
TotalWeight == SumTo([i \in 1..Len(fn.quantities) |-> fn.quantities[i] * fn.weightPerUnit[i]], Len(fn.quantities))

\* n is the ceiling of x / y for y > 0
IsCeil(n, x, y) == (n - 1) * y < x /\ x <= n * y

\* C6: for positive truck capacities calculateTrucksRequired returns
\* max(ceil(totalVolume/truckVolume), ceil(totalWeight/truckWeight)).
C6_TrucksIsMaxOfCeilings ==
    (FleetReturned /\ fn.truckVolume > 0 /\ fn.truckWeight > 0) =>
        /\ fn.ret.k = "num"
        /\ \E kv \in 0..TotalVolume, kw \in 0..TotalWeight :
              /\ IsCeil(kv, TotalVolume, fn.truckVolume)
              /\ IsCeil(kw, TotalWeight, fn.truckWeight)
              /\ fn.ret.v = IF kv >= kw THEN kv ELSE kw

\* a call where the two ceilings differ and neither division is exact
C6_Witness ==
    /\ FleetReturned /\ fn.truckVolume > 1 /\ fn.truckWeight > 1
    /\ TotalVolume % fn.truckVolume # 0
    /\ TotalWeight % fn.truckWeight # 0
    /\ fn.ret.k = "num" /\ fn.ret.v >= 2
    /\ fn.ret.v * fn.truckVolume >= TotalVolume + fn.truckVolume

Carries(n) == n * fn.truckVolume >= TotalVolume /\ n * fn.truckWeight >= TotalWeight

\* C7: for positive capacities the result is the least integer k >= 0 whose k
\* trucks carry the total volume and the total weight; it is 0 for the empty
\* order.
C7_TrucksIsLeastSufficient ==
    (FleetReturned /\ fn.truckVolume > 0 /\ fn.truckWeight > 0) =>
        /\ fn.ret.k = "num"
        /\ fn.ret.v >= 0
        /\ Carries(fn.ret.v)
        /\ \A n \in 0..(fn.ret.v - 1) : ~Carries(n)
        /\ (TotalVolume = 0 /\ TotalWeight = 0) => fn.ret.v = 0

\* the empty order has returned 0 trucks
C7_Witness ==
    /\ FleetReturned /\ fn.truckVolume > 0 /\ fn.truckWeight > 0
    /\ fn.quantities = <<>>
    /\ fn.ret = Num(0)

\* a call with a non-empty order where one truck fewer would not do
C7_WitnessNonEmpty ==
    /\ FleetReturned /\ fn.truckVolume > 0 /\ fn.truckWeight > 0
    /\ fn.ret.k = "num" /\ fn.ret.v >= 2

-----------------------------------------------------------------------------
(* Claims about the margin constraint *)

MarginReturned == pc = "returned" /\ fn.name = "marginConstraint"

\* the inputs the route lets through: quantity > 0, retail price > 0,
\* targetMargin in [0, 1]
ValidMarginInput ==
    /\ \A i \in 1..Len(fn.quantities) : fn.quantities[i] > 0 /\ fn.retailPrices[i] > 0
    /\ fn.targetMargin >= 0 /\ fn.targetMargin <= MarginScale

\* C8 as stated: for every targetMargin in [0, 1], raising one discount
\* strictly decreases marginConstraint, by an amount proportional to the raise.
C8_StrictlyDecreasingAnyMargin ==
    (MarginReturned /\ ValidMarginInput) =>
        /\ fn.retRaised.v < fn.ret.v
        /\ fn.ret.v - fn.retRaised2.v = 2 * (fn.ret.v - fn.retRaised.v)

\* C8 amended: marginConstraint is linear and non-increasing in each d[i]: a
\* raise of d[i] by h lowers it by exactly h * quantity[i] * (1 - targetMargin)
\* * retailPrice[i]; the decrease is strict when targetMargin < 1 and the
\* value does not change at all when targetMargin = 1.
C8_LinearDecreasing ==
    (MarginReturned /\ ValidMarginInput) =>
        /\ fn.ret.v - fn.retRaised.v =
              fn.h * fn.quantities[fn.i] * (MarginScale - fn.targetMargin) * fn.retailPrices[fn.i]
        /\ fn.ret.v - fn.retRaised2.v = 2 * (fn.ret.v - fn.retRaised.v)
        /\ fn.targetMargin < MarginScale => fn.retRaised.v < fn.ret.v
        /\ fn.targetMargin = MarginScale => fn.retRaised.v = fn.ret.v

\* a raise of the second discount of a two-line order at a margin below 1
C8_Witness ==
    /\ MarginReturned /\ ValidMarginInput
    /\ fn.targetMargin = 2 /\ fn.i = 2 /\ fn.h > 1
    /\ fn.retRaised.v < fn.ret.v

\* total profit after transport cost, and total revenue, both times Scale
ProfitAfterTransport ==
    SumTo([i \in 1..Len(fn.discounts) |->
             fn.quantities[i] * (fn.retailPrices[i] * (Scale - fn.discounts[i])
                                 - fn.supplierCosts[i] * Scale - fn.operationalCosts[i] * Scale)],
          Len(fn.discounts)) - fn.transportCost.v * Scale
Revenue ==
    SumTo([i \in 1..Len(fn.discounts) |->
             fn.quantities[i] * fn.retailPrices[i] * (Scale - fn.discounts[i])],
          Len(fn.discounts))

\* C9: marginConstraint(d) >= 0 exactly when total profit after transport
\* cost is at least targetMargin times total revenue.
C9_FeasibleIffMarginMet ==
    MarginReturned =>
        (GE0(fn.ret) <=> MarginScale * ProfitAfterTransport >= fn.targetMargin * Revenue)

\* a feasible evaluation with a transport cost and a non-zero discount, and an
\* evaluation that the transport cost alone makes infeasible
C9_Witness ==
    /\ MarginReturned
    /\ GE0(fn.ret)
    /\ fn.transportCost.v > 0
    /\ \E i \in 1..Len(fn.discounts) : fn.discounts[i] > 0
C9_WitnessInfeasible ==
    /\ MarginReturned
    /\ LT0(fn.ret)
    /\ fn.ret.v + fn.transportCost.v * MarginScale * Scale >= 0

-----------------------------------------------------------------------------
(* Stage 1: chaoticInitialization, one action per loop iteration *)

numIterStage1 == 3     \* main-loop budget (the route passes 1000)
FallbackAttempts == 100
DefaultMaxIterations == 1000

\* marginConstraint on the arguments held in p
MCp(d) == marginConstraint(d, p.quantities, p.retailPrices, p.supplierCosts,
                           p.operationalCosts, p.targetMargin, p.transportCost)

numDimensions == Len(p.supplierCosts)

\* Array(numDimensions).fill(0)
ZeroVector == [i \in 1..Len(p.quantities) |-> 0]

RECURSIVE ChaosSeq(_, _)
\* the next n iterates of the logistic map after x
ChaosSeq(x, n) ==
    IF n = 0 THEN <<>> ELSE <<logisticMap(x)>> \o ChaosSeq(logisticMap(x), n - 1)

\* the values Math.random() * 0.05 is drawn from: [0, 0.05) on the grid
RandomDraws == {0, 1, (Scale \div 20) - 1}

\* the candidate replaces the best one found so far
RecordsBest_NoCompare(constraintValue, objValue, best) == GE0(constraintValue)

RecordsBest(constraintValue, objValue, best) ==
    GE0(constraintValue) /\ GreaterThan(objValue, best)

\* the fallback's attempt loop is over: attempt < 100 is false
AttemptsExhausted_AtOnce(a) == a >= 0

AttemptsExhausted(a) == a >= FallbackAttempts

\* entry of chaoticInitialization with the chaos value left where the last
\* call ended
EnterChaos_KeepsChaosValue ==
    /\ c' = c
    /\ k' = 0
    /\ bestDiscounts' = null
    /\ bestObjectiveValue' = NegInfinity
    /\ attempt' = 0
    /\ sampled' = {}

\* entry of chaoticInitialization
EnterChaos ==
    /\ c' = (7 * Scale) \div 10
    /\ k' = 0
    /\ bestDiscounts' = null
    /\ bestObjectiveValue' = NegInfinity
    /\ attempt' = 0
    /\ sampled' = {}

ChaosIter ==
    /\ pc = "chaos"
    /\ k < p.numIterations
    /\ LET c1 == logisticMap(c)
           cs == ChaosSeq(c1, numDimensions)
           cand == [i \in 1..numDimensions |-> (p.maxDiscount * cs[i]) \div Scale]
           constraintValue == MCp(cand)
           objValue == objective(cand, p.quantities)
       IN  /\ c' = IF numDimensions = 0 THEN c1 ELSE cs[numDimensions]
           /\ IF RecordsBest(constraintValue, objValue, bestObjectiveValue)
              THEN /\ bestObjectiveValue' = Num(objValue)
                   /\ bestDiscounts' = Vec(cand)
              ELSE UNCHANGED <<bestObjectiveValue, bestDiscounts>>
           /\ sampled' = IF GE0(constraintValue) THEN sampled \cup {cand} ELSE sampled
    /\ k' = k + 1
    /\ UNCHANGED <<pc, routeVars, p, attempt, initialDiscounts, discounts, delta, iteration, fn>>

\* the main loop is over and found a feasible vector
ChaosReturnBest ==
    /\ pc = "chaos"
    /\ k >= p.numIterations
    /\ ~bestDiscounts.isNull
    /\ initialDiscounts' = bestDiscounts
    /\ pc' = "chaos_ret"
    /\ stages' = stages \cup {"return best"}
    /\ UNCHANGED <<req, db, products, numTrucks, res, p, c, k, bestDiscounts,
                   bestObjectiveValue, attempt, discounts, delta, iteration, sampled, fn>>

\* one attempt of the small-random-discount fallback; the loop counter is a
\* local that is gone once the function has returned
FallbackAttempt ==
    /\ pc = "chaos"
    /\ k >= p.numIterations
    /\ bestDiscounts.isNull
    /\ ~AttemptsExhausted(attempt)
    /\ \E smallDiscounts \in [1..numDimensions -> RandomDraws] :
          IF GE0(MCp(smallDiscounts))
          THEN /\ initialDiscounts' = Vec(smallDiscounts)
               /\ pc' = "chaos_ret"
               /\ stages' = stages \cup {"return smallDiscounts"}
               /\ attempt' = 0
          ELSE /\ attempt' = attempt + 1
               /\ UNCHANGED <<initialDiscounts, pc, stages>>
    /\ UNCHANGED <<req, db, products, numTrucks, res, p, c, k, bestDiscounts,
                   bestObjectiveValue, discounts, delta, iteration, sampled, fn>>

\* the zero-discount fallback and the final return
FallbackZero ==
    /\ pc = "chaos"
    /\ k >= p.numIterations
    /\ bestDiscounts.isNull
    /\ AttemptsExhausted(attempt)
    /\ LET zeroDiscounts == [i \in 1..numDimensions |-> 0]
       IN  IF GE0(MCp(zeroDiscounts))
           THEN /\ initialDiscounts' = Vec(zeroDiscounts)
                /\ stages' = stages \cup {"return zeroDiscounts"}
           ELSE /\ initialDiscounts' = bestDiscounts
                /\ stages' = stages \cup {"return best"}
    /\ attempt' = 0
    /\ pc' = "chaos_ret"
    /\ UNCHANGED <<req, db, products, numTrucks, res, p, c, k, bestDiscounts,
                   bestObjectiveValue, discounts, delta, iteration, sampled, fn>>

-----------------------------------------------------------------------------
(* Stage 2: patternSearch, one action per loop iteration *)

\* a probed vector is accepted
AcceptMove_NoFeasibility(cand, fBase) == objective(cand, p.quantities) > fBase

AcceptMove_NotStrict(cand, fBase) ==
    GE0(MCp(cand)) /\ objective(cand, p.quantities) >= fBase

AcceptMove(cand, fBase) ==
    GE0(MCp(cand)) /\ objective(cand, p.quantities) > fBase

\* lines 235-238 with only the first step size halved
HalveSteps_FirstOnly(dl) == [i \in 1..Len(dl) |-> IF i = 1 THEN dl[i] \div 2 ELSE dl[i]]

\* lines 235-238: delta[i] /= 2 for every i
HalveSteps(dl) == [i \in 1..Len(dl) |-> dl[i] \div 2]

RECURSIVE Sweep(_, _, _, _)
\* the coordinate sweep from coordinate i on: the vector Y and the flag improved
Sweep(Y, improved, dl, i) ==
    IF i > Len(Y) THEN [Y |-> Y, improved |-> improved]
    ELSE LET fBase == objective(Y, p.quantities)
             YPos == [Y EXCEPT ![i] = clamp(Y[i] + dl[i], 0, p.maxDiscount)]
             YNeg == [Y EXCEPT ![i] = clamp(Y[i] - dl[i], 0, p.maxDiscount)]
         IN  IF AcceptMove(YPos, fBase) THEN Sweep(YPos, TRUE, dl, i + 1)
             ELSE IF AcceptMove(YNeg, fBase) THEN Sweep(YNeg, TRUE, dl, i + 1)
             ELSE Sweep(Y, improved, dl, i + 1)

\* Math.max(...delta); -Infinity for the empty array
MaxDelta(dl) ==
    IF Len(dl) = 0 THEN NegInfinity
    ELSE Num(CHOOSE m \in {dl[i] : i \in 1..Len(dl)} : \A j \in 1..Len(dl) : dl[j] <= m)

\* maxDelta < epsilon with epsilon = 1e-4
BelowEpsilon_Tenth(m) == m.k = "inf" \/ m.v * 100000 < Scale

BelowEpsilon(m) == m.k = "inf" \/ m.v * 10000 < Scale

\* entry of patternSearch
EnterPattern(initial) ==
    /\ discounts' = initial
    /\ delta' = [i \in 1..Len(initial) |-> Scale \div 20]
    /\ iteration' = 0

\* one evaluation of the for loop: the loop test, and the body when it passes
PatternIter ==
    /\ pc = "pattern"
    /\ IF iteration >= p.maxIterations
       THEN pc' = "pattern_ret" /\ UNCHANGED <<discounts, delta, iteration>>
       ELSE \E sw \in {Sweep(discounts, FALSE, delta, 1)} :
            LET Y == sw.Y
                XNew == [i \in 1..Len(Y) |-> clamp(2 * Y[i] - discounts[i], 0, p.maxDiscount)]
                newDelta == IF sw.improved THEN delta ELSE HalveSteps(delta)
            IN  /\ discounts' = IF sw.improved
                                THEN IF AcceptMove(XNew, objective(Y, p.quantities))
                                     THEN XNew ELSE Y
                                ELSE discounts
                /\ delta' = newDelta
                /\ IF BelowEpsilon(MaxDelta(newDelta))
                   THEN pc' = "pattern_ret" /\ UNCHANGED iteration
                   ELSE pc' = "pattern" /\ iteration' = iteration + 1
    /\ UNCHANGED <<routeVars, p, c, k, bestDiscounts, bestObjectiveValue, attempt,
                   initialDiscounts, sampled, fn>>

-----------------------------------------------------------------------------
(* The handler between the two stages (logistics.js 566-593) *)

Respond_SuccessStatus(status, msg) == res' = [status |-> 200, msg |-> msg, body |-> NoBody]

Respond(status, msg) == res' = [status |-> status, msg |-> msg, body |-> NoBody]

AfterChaos ==
    /\ pc = "chaos_ret"
    /\ IF initialDiscounts.isNull
       THEN /\ Respond(400, "No feasible solution found in initialization stage")
            /\ pc' = "done"
            /\ UNCHANGED <<stages, discounts, delta, iteration>>
       ELSE /\ EnterPattern(initialDiscounts.v)
            /\ stages' = stages \cup {"pattern"}
            /\ pc' = "pattern"
            /\ UNCHANGED res
    /\ UNCHANGED <<req, db, products, numTrucks, p, c, k, bestDiscounts,
                   bestObjectiveValue, attempt, initialDiscounts, sampled, fn>>

-----------------------------------------------------------------------------
(* SpecOpt: the two search stages on arguments drawn from bounded sets.      *)
(* A run starts either at the entry of chaoticInitialization or at the       *)
(* entry of patternSearch with a seed vector drawn from a grid.              *)

Params(ls, tm, mD, T, nIt, mIt) ==
    [set |-> TRUE,
     quantities |-> [i \in 1..Len(ls) |-> ls[i].q],
     retailPrices |-> [i \in 1..Len(ls) |-> ls[i].rp],
     supplierCosts |-> [i \in 1..Len(ls) |-> ls[i].sc],
     operationalCosts |-> [i \in 1..Len(ls) |-> ls[i].oc],
     targetMargin |-> tm, maxDiscount |-> mD, transportCost |-> T,
     numIterations |-> nIt, maxIterations |-> mIt]

OptLines == SeqsUpTo(CostProfiles, MaxLines) \ {<<>>}
OptMaxDiscounts == {0, Scale \div 40, Scale \div 2, Scale}
OptTransportCosts == {0, 1, 15}
OptMaxIterations == {0, 2, DefaultMaxIterations}
SeedGrid == {0, Scale \div 20 - 1, Scale \div 20 + 1, Scale \div 2}

OptParams ==
    {Params(ls, tm, mD, Num(T), numIterStage1, DefaultMaxIterations) :
        ls \in OptLines, tm \in TargetMargins, mD \in OptMaxDiscounts,
        T \in OptTransportCosts}

SeedParams ==
    {Params(ls, 2, mD, Num(T), numIterStage1, mIt) :
        ls \in OptLines, mD \in OptMaxDiscounts \ {0},
        T \in {0, 1}, mIt \in OptMaxIterations}

InitOptChaos ==
    /\ pc = "chaos"
    /\ p \in OptParams
    /\ c = (7 * Scale) \div 10
    /\ initialDiscounts = null
    /\ stages = {"chaos"}

InitOptSeed ==
    /\ pc = "chaos_ret"
    /\ p \in SeedParams
    /\ c = 0
    /\ initialDiscounts \in {Vec(s) : s \in [1..Len(p.quantities) -> SeedGrid]}
    /\ stages = {}

InitOpt ==
    /\ InitOptChaos \/ InitOptSeed
    /\ k = 0
    /\ bestDiscounts = null
    /\ bestObjectiveValue = NegInfinity
    /\ attempt = 0
    /\ discounts = <<>>
    /\ delta = <<>>
    /\ iteration = 0
    /\ sampled = {}
    /\ req = NoReq
    /\ db = <<>>
    /\ products = <<>>
    /\ numTrucks = NaN
    /\ res = NoRes
    /\ fn = NoCall

NextOpt ==
    \/ ChaosIter
    \/ ChaosReturnBest
    \/ FallbackAttempt
    \/ FallbackZero
    \/ AfterChaos
    \/ PatternIter

SpecOpt == InitOpt /\ [][NextOpt]_vars

\* patternSearch is synchronous: once called its loop runs to the return
SpecOptFair == SpecOpt /\ WF_vars(PatternIter)

-----------------------------------------------------------------------------
(* Claims about the search stages *)

InBounds(d) == \A i \in 1..Len(d) : d[i] >= 0 /\ d[i] <= p.maxDiscount

PositiveInput ==
    \A i \in 1..Len(p.quantities) : p.quantities[i] > 0 /\ p.retailPrices[i] > 0

InPattern == pc \in {"pattern", "pattern_ret"}

\* patternSearch was entered with a feasible seed inside the box
FeasibleSeed ==
    /\ ~initialDiscounts.isNull
    /\ GE0(MCp(initialDiscounts.v))
    /\ InBounds(initialDiscounts.v)

\* C1: started from a feasible seed, the vector patternSearch holds after any
\* number of iterations, and so the one it returns on convergence or on an
\* exhausted budget, is feasible and has an objective >= the seed's.
C1_PatternSearchKeepsFeasibleAndImproves ==
    (InPattern /\ FeasibleSeed /\ PositiveInput) =>
        /\ GE0(MCp(discounts))
        /\ objective(discounts, p.quantities) >= objective(initialDiscounts.v, p.quantities)

\* a run that ended by convergence with a strictly better vector, and one that
\* ended on the iteration budget after improving
C1_Witness ==
    /\ pc = "pattern_ret" /\ FeasibleSeed /\ PositiveInput
    /\ BelowEpsilon(MaxDelta(delta))
    /\ objective(discounts, p.quantities) > objective(initialDiscounts.v, p.quantities)
C1_WitnessBudget ==
    /\ pc = "pattern_ret" /\ FeasibleSeed /\ PositiveInput
    /\ iteration = p.maxIterations /\ iteration > 0
    /\ ~BelowEpsilon(MaxDelta(delta))
    /\ objective(discounts, p.quantities) > objective(initialDiscounts.v, p.quantities)

\* C2: every vector chaoticInitialization returns, and every vector
\* patternSearch holds when started from it, lies in [0, maxDiscount]^n.
C2_DiscountsWithinBounds ==
    ("chaos" \in stages /\ p.maxDiscount >= 0 /\ p.maxDiscount <= Scale) =>
        /\ (pc = "chaos_ret" /\ ~initialDiscounts.isNull) => InBounds(initialDiscounts.v)
        /\ pc = "pattern_ret" => InBounds(discounts)

\* C10: chaoticInitialization returns null or a feasible vector; when the main
\* loop sampled a feasible candidate, the vector returned is one of the
\* sampled feasible candidates and none of them has a larger objective.
C10_ReturnsBestFeasibleSample ==
    ("chaos" \in stages /\ pc = "chaos_ret") =>
        /\ initialDiscounts.isNull \/ GE0(MCp(initialDiscounts.v))
        /\ sampled # {} =>
              /\ ~initialDiscounts.isNull
              /\ initialDiscounts.v \in sampled
              /\ \A s \in sampled :
                    objective(initialDiscounts.v, p.quantities) >= objective(s, p.quantities)

\* the main loop sampled feasible candidates of different objectives, the best
\* of them not the last one sampled, and has returned
C10_Witness ==
    /\ "chaos" \in stages /\ pc = "chaos_ret"
    /\ Cardinality(sampled) >= 2
    /\ \E s \in sampled :
          objective(s, p.quantities) < objective(initialDiscounts.v, p.quantities)
    /\ initialDiscounts.v[numDimensions] # (p.maxDiscount * c) \div Scale
\* the fallback returned a vector, and the call returned null
C10_WitnessFallback ==
    /\ "chaos" \in stages /\ pc = "chaos_ret"
    /\ sampled = {} /\ ~initialDiscounts.isNull
C10_WitnessNull ==
    /\ "chaos" \in stages /\ pc = "chaos_ret"
    /\ initialDiscounts.isNull

-----------------------------------------------------------------------------
(* C11: order of the fallback of chaoticInitialization *)

ChaosReturns == pc = "chaos" /\ pc' = "chaos_ret"

\* C11: when the main loop found a feasible candidate the fallback is never
\* entered and the best candidate is returned; otherwise at most 100 small
\* random vectors are tried and the first feasible one is returned, the zero
\* vector is tested and returned only after all 100 attempts failed, and the
\* no-solution signal is returned only when the zero vector failed as well.
C11_FallbackOrder ==
    [][/\ attempt <= FallbackAttempts
       /\ (attempt' > attempt) =>
              /\ sampled = {} /\ k >= p.numIterations /\ pc' = "chaos"
       /\ (ChaosReturns /\ sampled # {}) =>
              /\ attempt = 0
              /\ ~bestDiscounts.isNull
              /\ initialDiscounts' = bestDiscounts
       /\ (ChaosReturns /\ sampled = {}) =>
              \/ /\ attempt < FallbackAttempts
                 /\ ~initialDiscounts'.isNull
                 /\ initialDiscounts'.v \in [1..numDimensions -> RandomDraws]
                 /\ GE0(MCp(initialDiscounts'.v))
              \/ /\ attempt = FallbackAttempts
                 /\ GE0(MCp(ZeroVector))
                 /\ initialDiscounts' = Vec(ZeroVector)
              \/ /\ attempt = FallbackAttempts
                 /\ ~GE0(MCp(ZeroVector))
                 /\ initialDiscounts' = null]_vars

\* all 100 random attempts failed and the zero vector was returned
C11_Witness ==
    /\ pc = "chaos_ret"
    /\ sampled = {}
    /\ "return zeroDiscounts" \in stages
    /\ initialDiscounts = Vec(ZeroVector)

\* a random attempt was feasible after earlier ones had failed
C11_WitnessSmall ==
    /\ pc = "chaos"
    /\ attempt > 0 /\ attempt < FallbackAttempts
    /\ \E d \in [1..numDimensions -> RandomDraws] : GE0(MCp(d))

-----------------------------------------------------------------------------
(* SpecTwice: chaoticInitialization called twice with the same arguments     *)

InitTwice == InitOpt /\ pc = "chaos"

\* the first call has returned; its result is kept and the function is called
\* again with the arguments it was given
CallAgain ==
    /\ pc = "chaos_ret"
    /\ fn = NoCall
    /\ fn' = [name |-> "chaoticInitialization", ret |-> initialDiscounts]
    /\ EnterChaos
    /\ initialDiscounts' = null
    /\ stages' = {"chaos"}
    /\ pc' = "chaos"
    /\ UNCHANGED <<req, db, products, numTrucks, res, p, discounts, delta, iteration>>

NextTwice ==
    \/ ChaosIter
    \/ ChaosReturnBest
    \/ FallbackAttempt
    \/ FallbackZero
    \/ CallAgain

SpecTwice == InitTwice /\ [][NextTwice]_vars

SecondReturned == pc = "chaos_ret" /\ fn.name = "chaoticInitialization"

\* C12 as stated: two calls of chaoticInitialization with identical arguments
\* return identical results on every path, the fallback path included.
C12_SecondCallReturnsSame ==
    SecondReturned => initialDiscounts = fn.ret

\* C12: two calls with identical arguments return the identical vector when
\* the main loop finds a feasible candidate; on the fallback path both return
\* the no-solution signal or both return a feasible vector, and the two
\* vectors may differ because they come from Math.random().
C12_DeterministicMainLoop ==
    SecondReturned =>
        /\ sampled # {} => initialDiscounts = fn.ret
        /\ initialDiscounts.isNull = fn.ret.isNull
        /\ ~initialDiscounts.isNull =>
               GE0(MCp(initialDiscounts.v)) /\ GE0(MCp(fn.ret.v))

\* both calls returned the best candidate of the main loop
C12_Witness ==
    /\ SecondReturned
    /\ sampled # {}
    /\ Cardinality(sampled) > 1
    /\ initialDiscounts = fn.ret

\* both calls went through the fallback and returned different vectors
C12_WitnessFallbackDiffers ==
    /\ SecondReturned
    /\ sampled = {}
    /\ ~initialDiscounts.isNull
    /\ initialDiscounts # fn.ret

-----------------------------------------------------------------------------
(* POST /api/logistics/optimize *)

\* Product ids are tokens: "p1".."p9" stand for well-formed 24-digit hex
\* strings, "zz" for a string of another format and "#7" for a JSON value that
\* is not a string (a number).
ObjectIds == {"p1", "p2", "p3", "p4", "p9"}
IsString(id) == id # "#7"
MatchesObjectId(id) == id \in ObjectIds

\* The Product collection.  costPrice 0 stands for a missing costPrice and
\* operationalCost -1 for a missing or invalid one.
ProductStore ==
    [id \in {"p1", "p2", "p3", "p4"} |->
        CASE id = "p1" -> [_id |-> id, price |-> 10, costPrice |-> 7, operationalCost |-> 0]
          [] id = "p2" -> [_id |-> id, price |-> 100, costPrice |-> 70, operationalCost |-> 5]
          [] id = "p3" -> [_id |-> id, price |-> 20, costPrice |-> 0, operationalCost |-> -1]
          [] id = "p4" -> [_id |-> id, price |-> 0, costPrice |-> 7, operationalCost |-> 0]]

DefaultTruckVolume == 15
DefaultTruckWeight == 3000
DefaultDistanceKm == 10
DefaultCostPerKm == 55
DefaultNumHouseholds == 50
DefaultOperationalCost == 5

\* a valid request
BaseRequest ==
    [role |-> "admin",
     productIds |-> <<"p1", "p2">>,
     quantities |-> <<1, MaxQty + 1>>,
     volumePerUnit |-> <<1, 1>>,
     weightPerUnit |-> <<1, 1>>,
     targetMargin |-> 2,
     maxDiscount |-> Scale \div 2,
     distanceKm |-> 3,
     costPerKm |-> 5,
     numHouseholds |-> DefaultNumHouseholds,
     truckVolume |-> DefaultTruckVolume,
     truckWeight |-> DefaultTruckWeight]

\* the other values drawn for each field of the request
Alternatives ==
    [role |-> {"walmart", "user"},
     productIds |-> {<<>>, <<"p1">>, <<"p2", "p1">>, <<"p3", "p2">>, <<"p1", "p4">>,
                     <<"p1", "p9">>, <<"p1", "p1">>, <<"p9", "p9">>, <<"p4", "p4">>,
                     <<"zz", "p1">>, <<"#7", "p2">>, <<"p1", "p2", "p3">>},
     quantities |-> {<<>>, <<1>>, <<1, 1>>, <<0, 1>>, <<1, -1>>, <<MaxValue, MaxValue>>},
     volumePerUnit |-> {<<>>, <<1>>, <<MaxUnit, 1>>, <<1, 0>>},
     weightPerUnit |-> {<<>>, <<1>>, <<1, MaxUnit>>, <<-1, 1>>},
     targetMargin |-> {-1, 0, MarginScale, MarginScale + 1},
     maxDiscount |-> {-1, 0, Scale \div 40, Scale, Scale + 1},
     distanceKm |-> {-1, 0, 1, DefaultDistanceKm},
     costPerKm |-> {-1, 0, 1, DefaultCostPerKm},
     numHouseholds |-> {-1, 0, 1},
     truckVolume |-> {-1, 0, MaxCap},
     truckWeight |-> {-2, 0, MaxCap}]

Fields == DOMAIN Alternatives

\* r with one field replaced
OneOff(r) == UNION {{[r EXCEPT ![f] = v] : v \in Alternatives[f]} : f \in Fields}

\* the base request with at most two fields replaced
Requests == {BaseRequest} \cup OneOff(BaseRequest) \cup UNION {OneOff(r) : r \in OneOff(BaseRequest)}


Init ==
    /\ pc = "start"
    /\ req \in Requests
    /\ db = ProductStore
    /\ products = <<>>
    /\ numTrucks = NaN
    /\ res = NoRes
    /\ stages = {}
    /\ SearchIdle
    /\ fn = NoCall

NonPositive(xs) == \E i \in 1..Len(xs) : xs[i] <= 0

\* lines 260-422: the role check and the validation, in the code's order.
\* The outcome is the response, or status 0 when the request passes.
\* id.match on a value that is not a string throws a TypeError, which the
\* handler's outer catch answers with 500.
ValidationOutcome(r) ==
    IF r.role # "admin" /\ r.role # "walmart"
      THEN [status |-> 403, msg |-> "Not authorized to access this resource"]
    ELSE IF Len(r.productIds) = 0
      THEN [status |-> 400, msg |-> "Missing or invalid required field: productIds"]
    ELSE IF Len(r.quantities) = 0
      THEN [status |-> 400, msg |-> "Missing or invalid required field: quantities"]
    ELSE IF Len(r.volumePerUnit) = 0
      THEN [status |-> 400, msg |-> "Missing or invalid required field: volumePerUnit"]
    ELSE IF Len(r.weightPerUnit) = 0
      THEN [status |-> 400, msg |-> "Missing or invalid required field: weightPerUnit"]
    ELSE IF \/ Len(r.productIds) # Len(r.quantities)
            \/ Len(r.productIds) # Len(r.volumePerUnit)
            \/ Len(r.productIds) # Len(r.weightPerUnit)
      THEN [status |-> 400, msg |-> "Arrays must be of equal length"]
    ELSE IF \E i \in 1..Len(r.productIds) : ~IsString(r.productIds[i])
      THEN [status |-> 500, msg |-> "Server error"]
    ELSE IF \E i \in 1..Len(r.productIds) : ~MatchesObjectId(r.productIds[i])
      THEN [status |-> 400, msg |-> "Invalid product ID format"]
    ELSE IF NonPositive(r.quantities)
      THEN [status |-> 400, msg |-> "Invalid quantities"]
    ELSE IF NonPositive(r.volumePerUnit)
      THEN [status |-> 400, msg |-> "Invalid volumePerUnit values"]
    ELSE IF NonPositive(r.weightPerUnit)
      THEN [status |-> 400, msg |-> "Invalid weightPerUnit values"]
    ELSE IF r.targetMargin < 0 \/ r.targetMargin > MarginScale
      THEN [status |-> 400, msg |-> "Invalid targetMargin"]
    ELSE IF r.maxDiscount < 0 \/ r.maxDiscount > Scale
      THEN [status |-> 400, msg |-> "Invalid maxDiscount"]
    ELSE IF r.distanceKm <= 0
      THEN [status |-> 400, msg |-> "Invalid distanceKm"]
    ELSE IF r.costPerKm <= 0
      THEN [status |-> 400, msg |-> "Invalid costPerKm"]
    ELSE IF r.numHouseholds <= 0
      THEN [status |-> 400, msg |-> "Invalid numHouseholds"]
    ELSE [status |-> 0, msg |-> ""]

Validate ==
    /\ pc = "start"
    /\ LET out == ValidationOutcome(req)
       IN  IF out.status # 0
           THEN Respond(out.status, out.msg) /\ pc' = "done"
           ELSE pc' = "fetch" /\ UNCHANGED res
    /\ stages' = stages \cup {"validate"}
    /\ UNCHANGED <<req, db, products, numTrucks, searchVars, fn>>

\* the orders in which find() may return the stored documents whose _id is
\* among ids: each matching document once, in any order
FindResults(ids) ==
    LET found == {id \in DOMAIN db : \E i \in 1..Len(ids) : ids[i] = id}
    IN  {s \in [1..Cardinality(found) -> found] : \A i, j \in 1..Cardinality(found) : i # j => s[i] # s[j]}

\* lines 452-474: a document with its price fields checked and defaulted;
\* "null" for an invalid price
Normalised(doc) ==
    IF doc.price <= 0 THEN [_id |-> "null", price |-> 0, costPrice |-> 0, operationalCost |-> 0]
    ELSE [_id |-> doc._id,
          price |-> doc.price,
          costPrice |-> IF doc.costPrice <= 0 THEN (doc.price * 7) \div 10 ELSE doc.costPrice,
          operationalCost |-> IF doc.operationalCost < 0 THEN DefaultOperationalCost
                              ELSE doc.operationalCost]

\* the collection with the defaults of lines 452-474 written back to the
\* documents that were asked for
StoreAfterNormalise_WritesDefaults ==
    [id \in DOMAIN db |->
        IF \E i \in 1..Len(req.productIds) : req.productIds[i] = id
        THEN [db[id] EXCEPT !.costPrice = IF @ <= 0 THEN (db[id].price * 7) \div 10 ELSE @,
                            !.operationalCost = IF @ < 0 THEN DefaultOperationalCost ELSE @]
        ELSE db[id]]

\* the collection after lines 452-474: the defaults are set on copies made
\* with toObject(), and no document is saved
StoreAfterNormalise == db

\* lines 424-499: the product read (the handler's only suspension point)
FetchProducts ==
    /\ pc = "fetch"
    /\ stages' = stages \cup {"fetch"}
    /\ \/ /\ Respond(500, "Error fetching products from database")
          /\ pc' = "done"
          /\ UNCHANGED products
       \/ \E order \in FindResults(req.productIds) :
             LET docs == [i \in 1..Len(order) |-> db[order[i]]]
                 mapped == [i \in 1..Len(docs) |-> Normalised(docs[i])]
                 valid == SelectSeq(mapped, LAMBDA d : d._id # "null")
             IN  IF Len(docs) = 0
                   THEN Respond(400, "No products found with the provided IDs")
                        /\ pc' = "done" /\ UNCHANGED products
                 ELSE IF Len(docs) # Len(req.productIds)
                   THEN Respond(400, "Some products not found")
                        /\ pc' = "done" /\ products' = docs
                 ELSE IF Len(valid) = 0
                   THEN Respond(400, "All products have invalid price data")
                        /\ pc' = "done" /\ products' = valid
                 ELSE IF Len(valid) # Len(req.productIds)
                   THEN Respond(400, "Some products have invalid price data")
                        /\ pc' = "done" /\ products' = valid
                 ELSE pc' = "fleet" /\ products' = valid /\ UNCHANGED res
    /\ db' = StoreAfterNormalise
    /\ UNCHANGED <<req, numTrucks, searchVars, fn>>

\* zeroMarginConstraint < 0
ZeroInfeasible_Inverted(zeroMarginConstraint) == GE0(zeroMarginConstraint)

ZeroInfeasible(zeroMarginConstraint) == LT0(zeroMarginConstraint)

\* lines 501-564: fleet sizing, transport cost, the zero-discount feasibility
\* test and the entry of chaoticInitialization
SizeFleet ==
    /\ pc = "fleet"
    /\ LET supplierCosts == [i \in 1..Len(products) |-> products[i].costPrice]
           operationalCosts == [i \in 1..Len(products) |-> products[i].operationalCost]
           retailPrices == [i \in 1..Len(products) |-> products[i].price]
           trucks == calculateTrucksRequired(req.quantities, req.volumePerUnit,
                                             req.weightPerUnit, req.truckVolume, req.truckWeight)
           transportCost == Times(trucks, req.costPerKm * req.distanceKm)
           zeroDiscounts == [i \in 1..Len(req.productIds) |-> 0]
           zeroMarginConstraint ==
               marginConstraint(zeroDiscounts, req.quantities, retailPrices, supplierCosts,
                                operationalCosts, req.targetMargin, transportCost)
       IN  /\ numTrucks' = trucks
           /\ p' = [set |-> TRUE,
                    quantities |-> req.quantities,
                    retailPrices |-> retailPrices,
                    supplierCosts |-> supplierCosts,
                    operationalCosts |-> operationalCosts,
                    targetMargin |-> req.targetMargin,
                    maxDiscount |-> req.maxDiscount,
                    transportCost |-> transportCost,
                    numIterations |-> numIterStage1,
                    maxIterations |-> DefaultMaxIterations]
           /\ IF ZeroInfeasible(zeroMarginConstraint)
              THEN /\ Respond(400, "Optimization infeasible with current parameters")
                   /\ pc' = "done"
                   /\ stages' = stages \cup {"fleet", "feasibility"}
                   /\ UNCHANGED <<c, k, bestDiscounts, bestObjectiveValue, attempt, sampled>>
              ELSE /\ EnterChaos
                   /\ pc' = "chaos"
                   /\ stages' = stages \cup {"fleet", "feasibility", "chaos"}
                   /\ UNCHANGED res
    /\ UNCHANGED <<req, db, products, initialDiscounts, discounts, delta, iteration, fn>>

-----------------------------------------------------------------------------
(* calculateCO2Savings (logistics.js 37-66) *)

\* distances are counted in 1/DistScale km, emission factors in
\* 1/EmissionScale kg per km, relativeReduction in 1/PercentScale percent
DistScale == 10
EmissionScale == 100
PercentScale == 100

undefined == [k |-> "undefined", v |-> 0]

\* a destructuring default: it applies when the property is undefined
OrDefault(x, d) == IF x.k = "undefined" THEN Num(d) ELSE x

Sign(n) == IF n > 0 THEN 1 ELSE IF n < 0 THEN -1 ELSE 0

\* x * y
JsMul(x, y) ==
    IF x.k = "nan" \/ y.k = "nan" THEN NaN
    ELSE IF x.k = "num" /\ y.k = "num" THEN Num(x.v * y.v)
    ELSE IF Sign(x.v) * Sign(y.v) = 0 THEN NaN
    ELSE [k |-> "inf", v |-> Sign(x.v) * Sign(y.v)]

\* x - y
JsSub(x, y) ==
    IF x.k = "nan" \/ y.k = "nan" THEN NaN
    ELSE IF x.k = "num" /\ y.k = "num" THEN Num(x.v - y.v)
    ELSE IF x.k = "inf" /\ y.k = "inf"
         THEN IF x.v = y.v THEN NaN ELSE x
    ELSE IF x.k = "inf" THEN x
    ELSE [k |-> "inf", v |-> -y.v]

\* (x / y) * 100, a finite quotient rounded down to the percent grid; the
\* sign of a zero is not kept
JsPercent(x, y) ==
    IF x.k = "nan" \/ y.k = "nan" THEN NaN
    ELSE IF x.k = "num" /\ y.k = "num"
         THEN IF y.v = 0
              THEN IF x.v = 0 THEN NaN ELSE [k |-> "inf", v |-> Sign(x.v)]
              ELSE IF y.v > 0 THEN Num((x.v * 100 * PercentScale) \div y.v)
              ELSE Num(((-x.v) * 100 * PercentScale) \div (-y.v))
    ELSE IF x.k = "inf" /\ y.k = "inf" THEN NaN
    ELSE IF x.k = "inf"
         THEN [k |-> "inf", v |-> IF y.v < 0 THEN -x.v ELSE x.v]
    ELSE Num(0)

DefaultIndivDistanceKm == 4
DefaultBulkDistanceKm == 10
DefaultEmissionIndiv == 18
DefaultEmissionTruck == 55
DefaultNumTrucks == 1

\* the percentage taken of the bulk emissions instead of the individual ones
calculateCO2Savings_OverBulk(a) ==
    LET numHouseholds == OrDefault(a.numHouseholds, DefaultNumHouseholds)
        indivDistanceKm == OrDefault(a.indivDistanceKm, DefaultIndivDistanceKm * DistScale)
        bulkDistanceKm == OrDefault(a.bulkDistanceKm, DefaultBulkDistanceKm * DistScale)
        emissionIndiv == OrDefault(a.emissionIndiv, DefaultEmissionIndiv)
        emissionTruck == OrDefault(a.emissionTruck, DefaultEmissionTruck)
        numTrucks_ == OrDefault(a.numTrucks, DefaultNumTrucks)
        emissionIndividual == JsMul(JsMul(numHouseholds, indivDistanceKm), emissionIndiv)
        emissionBulk == JsMul(JsMul(numTrucks_, bulkDistanceKm), emissionTruck)
        emissionSaved == JsSub(emissionIndividual, emissionBulk)
    IN  [numHouseholds |-> numHouseholds,
         emissionIndividual |-> emissionIndividual,
         emissionBulk |-> emissionBulk,
         emissionSaved |-> emissionSaved,
         relativeReduction |-> JsPercent(emissionSaved, emissionBulk),
         numTrucks |-> numTrucks_,
         indivDistanceKm |-> indivDistanceKm,
         bulkDistanceKm |-> bulkDistanceKm]

\* emissions are in 1/(DistScale * EmissionScale) kg
calculateCO2Savings(a) ==
    LET numHouseholds == OrDefault(a.numHouseholds, DefaultNumHouseholds)
        indivDistanceKm == OrDefault(a.indivDistanceKm, DefaultIndivDistanceKm * DistScale)
        bulkDistanceKm == OrDefault(a.bulkDistanceKm, DefaultBulkDistanceKm * DistScale)
        emissionIndiv == OrDefault(a.emissionIndiv, DefaultEmissionIndiv)
        emissionTruck == OrDefault(a.emissionTruck, DefaultEmissionTruck)
        numTrucks_ == OrDefault(a.numTrucks, DefaultNumTrucks)
        emissionIndividual == JsMul(JsMul(numHouseholds, indivDistanceKm), emissionIndiv)
        emissionBulk == JsMul(JsMul(numTrucks_, bulkDistanceKm), emissionTruck)
        emissionSaved == JsSub(emissionIndividual, emissionBulk)
        relativeReduction == JsPercent(emissionSaved, emissionIndividual)
    IN  [numHouseholds |-> numHouseholds,
         emissionIndividual |-> emissionIndividual,
         emissionBulk |-> emissionBulk,
         emissionSaved |-> emissionSaved,
         relativeReduction |-> relativeReduction,
         numTrucks |-> numTrucks_,
         indivDistanceKm |-> indivDistanceKm,
         bulkDistanceKm |-> bulkDistanceKm]

-----------------------------------------------------------------------------
(* The success response (logistics.js 607-671) *)

\* the retail price without the discount
FinalPrice_Undiscounted(rp, d) == rp * Scale

\* line 608: p * (1 - optimalDiscounts[i]), times Scale
FinalPrice(rp, d) == rp * (Scale - d)

\* lines 607-671: final prices, profits and margin, and the success response
\* (prices, profits and revenue times Scale)
Finalize ==
    /\ pc = "pattern_ret"
    /\ LET optimalDiscounts == discounts
           n == Len(p.retailPrices)
           finalPrices == [i \in 1..n |-> FinalPrice(p.retailPrices[i], optimalDiscounts[i])]
           finalProfits == [i \in 1..n |->
                              (finalPrices[i] - p.supplierCosts[i] * Scale
                                 - p.operationalCosts[i] * Scale) * p.quantities[i]]
           totalProfit == SumTo(finalProfits, n)
           totalRevenue == SumTo([i \in 1..n |-> finalPrices[i] * p.quantities[i]], n)
           \* totalRevenue > 0 ? totalProfit / totalRevenue : 0, as a fraction
           finalMargin == IF totalRevenue > 0
                          THEN [num |-> totalProfit, den |-> totalRevenue]
                          ELSE [num |-> 0, den |-> 1]
           \* lines 627-631
           emissions == calculateCO2Savings(
                            [numHouseholds |-> Num(req.numHouseholds),
                             indivDistanceKm |-> undefined,
                             bulkDistanceKm |-> Num(req.distanceKm * DistScale),
                             emissionIndiv |-> undefined,
                             emissionTruck |-> undefined,
                             numTrucks |-> numTrucks])
       IN  res' = [status |-> 200, msg |-> "",
                   body |-> [success |-> TRUE,
                             ids |-> [i \in 1..Len(products) |-> products[i]._id],
                             discount |-> optimalDiscounts,
                             finalPrice |-> finalPrices,
                             profit |-> finalProfits,
                             quantity |-> p.quantities,
                             totalRevenue |-> totalRevenue,
                             totalProfit |-> totalProfit,
                             finalMargin |-> finalMargin,
                             transportCost |-> p.transportCost,
                             numTrucks |-> numTrucks,
                             emissions |-> emissions]]
    /\ pc' = "done"
    /\ stages' = stages \cup {"finalize"}
    /\ UNCHANGED <<req, db, products, numTrucks, searchVars, fn>>

Next ==
    \/ Validate
    \/ FetchProducts
    \/ SizeFleet
    \/ ChaosIter
    \/ ChaosReturnBest
    \/ FallbackAttempt
    \/ FallbackZero
    \/ AfterChaos
    \/ PatternIter
    \/ Finalize

Spec == Init /\ [][Next]_vars

\* the handler runs on the event loop until it has answered
SpecLive == Spec /\ WF_vars(Next)

-----------------------------------------------------------------------------
(* Claims about the handler *)

SearchStages == {"chaos", "pattern"}

\* C3: when the zero-discount vector violates the margin constraint, the
\* handler answers with the infeasible-at-zero-discount report and neither
\* search stage is ever started.
C3_InfeasibleAtZeroSkipsSearch ==
    (req # NoReq /\ p.set /\ LT0(MCp(ZeroVector))) =>
        /\ pc = "done"
        /\ res.status = 400
        /\ res.msg = "Optimization infeasible with current parameters"
        /\ stages \cap SearchStages = {}
        /\ initialDiscounts.isNull /\ discounts = <<>> /\ k = 0

\* the report was sent for a finite transport cost that is too large
C3_Witness ==
    /\ req # NoReq /\ p.set /\ LT0(MCp(ZeroVector))
    /\ p.transportCost.k = "num"
    /\ pc = "done" /\ res.msg = "Optimization infeasible with current parameters"
    /\ "feasibility" \in stages

\* the inputs C4 lists
InvalidInput(r) ==
    \/ Len(r.productIds) # Len(r.quantities)
    \/ Len(r.productIds) # Len(r.volumePerUnit)
    \/ Len(r.productIds) # Len(r.weightPerUnit)
    \/ NonPositive(r.quantities) \/ NonPositive(r.volumePerUnit) \/ NonPositive(r.weightPerUnit)
    \/ r.targetMargin < 0 \/ r.targetMargin > MarginScale
    \/ r.maxDiscount < 0 \/ r.maxDiscount > Scale
    \/ r.distanceKm <= 0 \/ r.costPerKm <= 0 \/ r.numHouseholds <= 0

Authorized(r) == r.role \in {"admin", "walmart"}

\* C4: a request of an authorized caller with one of the listed input errors
\* is answered as an input error (status 400) and nothing after the
\* validation runs for it.
C4_InvalidInputRejectedFirst ==
    (req # NoReq /\ Authorized(req) /\ InvalidInput(req) /\ pc # "start") =>
        /\ pc = "done"
        /\ res.status = 400
        /\ stages = {"validate"}

\* C5: once the fleet is sized, trucksRequired is a finite integer >= 0 and
\* transportCost a finite number >= 0, whatever truckVolume and truckWeight
\* the request carried.
C5_FleetFiniteNonNegative ==
    "fleet" \in stages =>
        /\ numTrucks.k = "num" /\ numTrucks.v >= 0
        /\ p.transportCost.k = "num" /\ p.transportCost.v >= 0

-----------------------------------------------------------------------------
(* calculateCO2Savings and GET /co2-savings/:orderId                         *)

\* strings of the query are sequences of characters
DigitOf == ("0" :> 0) @@ ("1" :> 1) @@ ("2" :> 2) @@ ("3" :> 3) @@ ("4" :> 4) @@
           ("5" :> 5) @@ ("6" :> 6) @@ ("7" :> 7) @@ ("8" :> 8) @@ ("9" :> 9)

RECURSIVE DigitPrefix(_)
\* the number of leading decimal digits of t
DigitPrefix(t) ==
    IF t # <<>> /\ Head(t) \in DOMAIN DigitOf THEN 1 + DigitPrefix(Tail(t)) ELSE 0

RECURSIVE DigitsValue(_, _)
\* the value of the first n characters of t, all digits
DigitsValue(t, n) ==
    IF n = 0 THEN 0 ELSE 10 * DigitsValue(t, n - 1) + DigitOf[t[n]]

Unsigned(s) == IF s # <<>> /\ Head(s) \in {"-", "+"} THEN Tail(s) ELSE s
SignOf(s) == IF s # <<>> /\ Head(s) = "-" THEN -1 ELSE 1

\* parseInt(s): an optional sign and the longest prefix of digits; NaN when
\* there is no digit
ParseInt(s) ==
    LET t == Unsigned(s)
        n == DigitPrefix(t)
    IN  IF n = 0 THEN NaN ELSE Num(SignOf(s) * DigitsValue(t, n))

\* parseFloat(s) in 1/DistScale: an optional sign, digits, and an optional
\* point followed by digits (further decimals are below the grid); NaN when
\* there is no digit
ParseFloat(s) ==
    LET t == Unsigned(s)
        n == DigitPrefix(t)
        rest == SubSeq(t, n + 1, Len(t))
        f == IF rest # <<>> /\ Head(rest) = "." THEN Tail(rest) ELSE <<>>
        m == DigitPrefix(f)
        frac == IF m = 0 THEN 0 ELSE (DigitOf[f[1]] * DistScale) \div 10
    IN  IF n = 0 /\ m = 0 THEN NaN
        ELSE Num(SignOf(s) * (DigitsValue(t, n) * DistScale + frac))

\* a query parameter: absent, or the string given
Absent == [present |-> FALSE, s |-> <<>>]
Given(s) == [present |-> TRUE, s |-> s]

\* volumes are counted in 1/VolumeScale cubic metres, weights in
\* 1/WeightScale kg
VolumeScale == 100
WeightScale == 10
DefaultItemVolume == 2      \* 0.02 cubic metres
DefaultItemWeight == 15     \* 1.5 kg

\* the orders in the database; a volume or weight of 0 is one the product
\* does not specify
OrderStore ==
    [o1 |-> <<[quantity |-> 2, volume |-> 0, weight |-> 0]>>,
     o2 |-> <<>>,
     o3 |-> <<[quantity |-> 1000, volume |-> 2, weight |-> 20],
              [quantity |-> 1, volume |-> 50, weight |-> 0]>>]

OrderIds == {"o1", "o2", "o3", "o9"}

CO2Requests ==
    [route : {"co2-savings"},
     orderId : OrderIds \cup {"zz"},
     distanceKm : {Absent, Given(<<"1", "0">>), Given(<<"2", ".", "5">>),
                   Given(<<"0">>), Given(<<"x">>)},
     numHouseholds : {Absent, Given(<<"5", "0">>), Given(<<"0">>), Given(<<"2">>),
                      Given(<<"a", "b", "c">>), Given(<<"-", "1">>),
                      Given(<<"3", "x">>)}]

CO2Calls ==
    {[name |-> "calculateCO2Savings",
      args |-> [numHouseholds |-> nh, indivDistanceKm |-> id, bulkDistanceKm |-> bd,
                emissionIndiv |-> ei, emissionTruck |-> et, numTrucks |-> nt],
      ret |-> undefined] :
        nh \in {undefined, Num(0), Num(1), Num(DefaultNumHouseholds)},
        id \in {undefined, Num(0), Num(DistScale)},
        bd \in {undefined, Num(0), Num(3 * DistScale)},
        ei \in {undefined, Num(0), Num(10)},
        et \in {undefined, Num(100)},
        nt \in {undefined, Num(0), Num(2), NaN}}

InitCO2 ==
    /\ \/ pc = "call" /\ fn \in CO2Calls /\ req = NoReq
       \/ pc = "co2-savings" /\ fn = NoCall /\ req \in CO2Requests
    /\ db = <<>>
    /\ products = <<>>
    /\ numTrucks = NaN
    /\ res = NoRes
    /\ stages = {}
    /\ SearchIdle

CallCO2 ==
    /\ pc = "call"
    /\ fn.name = "calculateCO2Savings"
    /\ fn' = [fn EXCEPT !.ret = calculateCO2Savings(fn.args)]
    /\ pc' = "returned"
    /\ UNCHANGED <<routeVars, searchVars>>

\* router.get('/co2-savings/:orderId')
GetCO2Savings ==
    /\ pc = "co2-savings"
    /\ LET orderId == req.orderId
           items == OrderStore[orderId]
           vol(i) == IF items[i].volume = 0 THEN DefaultItemVolume ELSE items[i].volume
           wt(i) == IF items[i].weight = 0 THEN DefaultItemWeight ELSE items[i].weight
           totalVolume == SumTo([i \in 1..Len(items) |-> items[i].quantity * vol(i)], Len(items))
           totalWeight == SumTo([i \in 1..Len(items) |-> items[i].quantity * wt(i)], Len(items))
           trucks == calculateTrucksRequired(<<1>>, <<totalVolume>>, <<totalWeight>>,
                                             DefaultTruckVolume * VolumeScale,
                                             DefaultTruckWeight * WeightScale)
           emissions == calculateCO2Savings(
                            [numHouseholds |-> IF req.numHouseholds.present
                                               THEN ParseInt(req.numHouseholds.s)
                                               ELSE Num(DefaultNumHouseholds),
                             indivDistanceKm |-> undefined,
                             bulkDistanceKm |-> IF req.distanceKm.present
                                                THEN ParseFloat(req.distanceKm.s)
                                                ELSE Num(DefaultDistanceKm * DistScale),
                             emissionIndiv |-> undefined,
                             emissionTruck |-> undefined,
                             numTrucks |-> trucks])
       IN  IF orderId \notin OrderIds
           THEN Respond(500, "Server error")
           ELSE IF orderId \notin DOMAIN OrderStore
           THEN Respond(404, "Order not found")
           ELSE res' = [status |-> 200, msg |-> "",
                        body |-> [success |-> TRUE, orderId |-> orderId,
                                  totalVolume |-> totalVolume, totalWeight |-> totalWeight,
                                  numTrucks |-> trucks, emissions |-> emissions]]
    /\ pc' = "done"
    /\ UNCHANGED <<req, db, products, numTrucks, stages, searchVars, fn>>

NextCO2 == CallCO2 \/ GetCO2Savings

SpecCO2 == InitCO2 /\ [][NextCO2]_vars


-----------------------------------------------------------------------------
(* Claims about calculateCO2Savings *)

CO2Called == pc = "returned" /\ fn.name = "calculateCO2Savings"
CO2Served == pc = "done" /\ res.status = 200
Emissions == IF CO2Called THEN fn.ret ELSE res.body.emissions

\* C13 as stated: relativeReduction is never NaN or infinite, and it is 0 when
\* the individual emissions are 0 (numHouseholds = 0), for direct calls and
\* for the values the co2-savings route parses from the query string.
C13_ReductionNeverUndefined ==
    (CO2Called \/ CO2Served) =>
        /\ Emissions.relativeReduction.k = "num"
        /\ Emissions.emissionIndividual = Num(0) => Emissions.relativeReduction = Num(0)

\* the arguments of a direct call after the defaults are applied
ArgOf(x, d) == IF x.k = "undefined" THEN d ELSE x.v

FiniteArgs == \A f \in DOMAIN fn.args : fn.args[f].k \in {"num", "undefined"}

\* C14: emissionIndividual = numHouseholds * indivDistanceKm * emissionIndiv,
\* emissionBulk = numTrucks * bulkDistanceKm * emissionTruck, emissionSaved is
\* their difference and relativeReduction is emissionSaved / emissionIndividual
\* * 100; the defaults give 36, 5.5, 30.5 and between 84.7 and 84.8 percent.
C14_EmissionFormulas ==
    CO2Called =>
        LET a == fn.args
            e == fn.ret
            indiv == ArgOf(a.numHouseholds, 50) * ArgOf(a.indivDistanceKm, 4 * DistScale)
                         * ArgOf(a.emissionIndiv, 18)
            bulk == ArgOf(a.numTrucks, 1) * ArgOf(a.bulkDistanceKm, 10 * DistScale)
                         * ArgOf(a.emissionTruck, 55)
            r == e.relativeReduction
            kg == DistScale * EmissionScale
        IN  /\ FiniteArgs =>
                 /\ e.emissionIndividual = Num(indiv)
                 /\ e.emissionBulk = Num(bulk)
                 /\ e.emissionSaved = Num(indiv - bulk)
                 /\ indiv > 0 =>
                       /\ r.k = "num"
                       /\ r.v * indiv <= (indiv - bulk) * 100 * PercentScale
                       /\ (indiv - bulk) * 100 * PercentScale < (r.v + 1) * indiv
            /\ ~FiniteArgs =>
                 /\ e.emissionBulk = NaN
                 /\ e.emissionSaved = NaN
                 /\ r = NaN
            /\ (\A f \in DOMAIN a : a[f] = undefined) =>
                 /\ e.emissionIndividual = Num(36 * kg)
                 /\ 2 * e.emissionBulk.v = 11 * kg
                 /\ 2 * e.emissionSaved.v = 61 * kg
                 /\ 10 * r.v >= 847 * PercentScale
                 /\ 10 * r.v <= 848 * PercentScale

\* the call with every argument left to its default has returned
C14_Witness ==
    /\ CO2Called
    /\ \A f \in DOMAIN fn.args : fn.args[f] = undefined
    /\ fn.ret.relativeReduction.k = "num"

\* a call with its own arguments has returned a finite reduction
C14_WitnessArgs ==
    /\ CO2Called
    /\ fn.args.numHouseholds = Num(1)
    /\ fn.args.numTrucks = Num(2)
    /\ fn.ret.relativeReduction.k = "num"
    /\ fn.ret.relativeReduction.v < 0


-----------------------------------------------------------------------------
(* SpecConc: two optimize requests interleaved at the handler's suspension   *)
(* points. Every variable but db is a local of one invocation of the         *)
(* handler; between two suspension points an invocation runs alone.          *)

\* the locals of the invocation that is running
Context ==
    [pc |-> pc, req |-> req, products |-> products, numTrucks |-> numTrucks,
     res |-> res, stages |-> stages, p |-> p, c |-> c, k |-> k,
     bestDiscounts |-> bestDiscounts, bestObjectiveValue |-> bestObjectiveValue,
     attempt |-> attempt, initialDiscounts |-> initialDiscounts,
     discounts |-> discounts, delta |-> delta, iteration |-> iteration,
     sampled |-> sampled]

\* the locals of an invocation whose request r has just arrived
Fresh(r) ==
    [pc |-> "start", req |-> r, products |-> <<>>, numTrucks |-> NaN,
     res |-> NoRes, stages |-> {}, p |-> NoParams, c |-> 0, k |-> 0,
     bestDiscounts |-> null, bestObjectiveValue |-> NegInfinity,
     attempt |-> 0, initialDiscounts |-> null,
     discounts |-> <<>>, delta |-> <<>>, iteration |-> 0,
     sampled |-> {}]

\* an invocation resumed with the request body of the invocation that ran
\* last, as if the destructured body were kept in module-level variables
Resumed_SharedBody(ctx) ==
    /\ pc' = ctx.pc /\ UNCHANGED req /\ products' = ctx.products
    /\ numTrucks' = ctx.numTrucks /\ res' = ctx.res /\ stages' = ctx.stages
    /\ p' = ctx.p /\ c' = ctx.c /\ k' = ctx.k
    /\ bestDiscounts' = ctx.bestDiscounts
    /\ bestObjectiveValue' = ctx.bestObjectiveValue
    /\ attempt' = ctx.attempt /\ initialDiscounts' = ctx.initialDiscounts
    /\ discounts' = ctx.discounts /\ delta' = ctx.delta
    /\ iteration' = ctx.iteration /\ sampled' = ctx.sampled

\* an invocation is resumed with its own locals
Resumed(ctx) ==
    /\ pc' = ctx.pc /\ req' = ctx.req /\ products' = ctx.products
    /\ numTrucks' = ctx.numTrucks /\ res' = ctx.res /\ stages' = ctx.stages
    /\ p' = ctx.p /\ c' = ctx.c /\ k' = ctx.k
    /\ bestDiscounts' = ctx.bestDiscounts
    /\ bestObjectiveValue' = ctx.bestObjectiveValue
    /\ attempt' = ctx.attempt /\ initialDiscounts' = ctx.initialDiscounts
    /\ discounts' = ctx.discounts /\ delta' = ctx.delta
    /\ iteration' = ctx.iteration /\ sampled' = ctx.sampled

ConcRequests ==
    {BaseRequest,
     [BaseRequest EXCEPT !.maxDiscount = Scale \div 40],
     [BaseRequest EXCEPT !.quantities = <<1, 1>>],
     [BaseRequest EXCEPT !.productIds = <<"p2", "p1">>, !.targetMargin = 0],
     [BaseRequest EXCEPT !.costPerKm = DefaultCostPerKm],
     [BaseRequest EXCEPT !.distanceKm = 0]}

\* the first request is handled alone
InitConc ==
    /\ pc = "start"
    /\ req \in ConcRequests
    /\ db = ProductStore
    /\ products = <<>>
    /\ numTrucks = NaN
    /\ res = NoRes
    /\ stages = {}
    /\ SearchIdle
    /\ fn = [name |-> "alone", first |-> req, second |-> req, turn |-> 1,
             alone |-> Fresh(req), other |-> Fresh(req)]

\* the lone run is over: the same request arrives again, together with a
\* second one
StartConcurrent ==
    /\ fn.name = "alone"
    /\ pc = "done"
    /\ \E r2 \in ConcRequests :
          fn' = [name |-> "concurrent", first |-> fn.first, second |-> r2, turn |-> 1,
                 alone |-> Context, other |-> Fresh(r2)]
    /\ Resumed(Fresh(fn.first))
    /\ UNCHANGED db

\* the running invocation is at a suspension point (not yet started, awaiting
\* Product.find, or finished) and the event loop runs the other one
Switch ==
    /\ fn.name = "concurrent"
    /\ pc \in {"start", "fetch", "done"}
    /\ fn.other.pc # "done"
    /\ fn' = [fn EXCEPT !.turn = 3 - @, !.other = Context]
    /\ Resumed(fn.other)
    /\ UNCHANGED db

NextConc == Next \/ StartConcurrent \/ Switch

SpecConc == InitConc /\ [][NextConc]_vars


-----------------------------------------------------------------------------
(* C15: concurrent optimize requests *)

DbError == "Error fetching products from database"

ElementsOf(seq) == {seq[i] : i \in 1..Len(seq)}

\* the response in ctx answers the request own and nothing else
AnswersOwnRequest(ctx, own) ==
    LET out == ValidationOutcome(own)
    IN  /\ out.status # 0 =>
               ctx.res = [status |-> out.status, msg |-> out.msg, body |-> NoBody]
        /\ ctx.res.status = 200 =>
               /\ out.status = 0
               /\ ctx.res.body.quantity = own.quantities
               /\ ElementsOf(ctx.res.body.ids) = ElementsOf(own.productIds)
               /\ \A i \in 1..Len(ctx.res.body.discount) :
                     ctx.res.body.discount[i] <= MathMax(Num(own.maxDiscount), Num(Scale \div 20)).v

\* the invocation in ctx saw what the lone run saw: the same documents from
\* Product.find and the same draws of the fallback
SameEnvironment(ctx) ==
    /\ ctx.products = fn.alone.products
    /\ ctx.initialDiscounts = fn.alone.initialDiscounts
    /\ ctx.res.msg # DbError
    /\ fn.alone.res.msg # DbError

\* C15: whatever the interleaving of two optimize requests at their
\* suspension points, each response answers its own request, and the response
\* of a request equals the one it got when it ran alone (given the same
\* documents from the database and the same random draws of the fallback).
C15_ConcurrentRequestsIndependent ==
    fn.name = "concurrent" =>
        LET mine == IF fn.turn = 1 THEN fn.first ELSE fn.second
            theirs == IF fn.turn = 1 THEN fn.second ELSE fn.first
        IN  /\ pc = "done" => AnswersOwnRequest(Context, mine)
            /\ fn.other.pc = "done" => AnswersOwnRequest(fn.other, theirs)
            /\ (pc = "done" /\ fn.turn = 1 /\ SameEnvironment(Context)) =>
                   res = fn.alone.res
            /\ (fn.other.pc = "done" /\ fn.turn = 2 /\ SameEnvironment(fn.other)) =>
                   fn.other.res = fn.alone.res

\* both requests were suspended at Product.find at the same time, the second
\* finished first, and both succeeded with different results
C15_Witness ==
    /\ fn.name = "concurrent"
    /\ fn.turn = 1
    /\ fn.first # fn.second
    /\ pc = "done" /\ fn.other.pc = "done"
    /\ "pattern" \in stages /\ "pattern" \in fn.other.stages
    /\ res.status = 200 /\ fn.other.res.status = 200
    /\ res # fn.other.res
    /\ SameEnvironment(Context)


-----------------------------------------------------------------------------
(* SpecFrame: an optimize request while prices are saved through             *)
(* POST /api/pricing/save (routes/pricing.js)                                *)

MaxSaves == 1

\* the stored documents with their discount fields (discountedPrice 0: not set)
PricedStore ==
    [id \in DOMAIN ProductStore |->
        [_id |-> id,
         price |-> ProductStore[id].price,
         costPrice |-> ProductStore[id].costPrice,
         operationalCost |-> ProductStore[id].operationalCost,
         discountPercentage |-> 0,
         discountedPrice |-> 0]]

FrameRequests == {BaseRequest} \cup OneOff(BaseRequest)

SaveBodies ==
    [role : {"walmart", "user"},
     hasProducts : BOOLEAN,
     products : {<<>>,
                 <<[_id |-> "p1", discount |-> 5, optimizedPrice |-> 9]>>,
                 <<[_id |-> "p2", discount |-> 90, optimizedPrice |-> 10],
                   [_id |-> "p3", discount |-> 1, optimizedPrice |-> 19]>>,
                 <<[_id |-> "zz", discount |-> 5, optimizedPrice |-> 1],
                   [_id |-> "p2", discount |-> 5, optimizedPrice |-> 95]>>,
                 <<[_id |-> "p9", discount |-> 5, optimizedPrice |-> 1]>>}]

InitFrame ==
    /\ pc = "start"
    /\ req \in FrameRequests
    /\ db = PricedStore
    /\ products = <<>>
    /\ numTrucks = NaN
    /\ res = NoRes
    /\ stages = {}
    /\ SearchIdle
    /\ fn = [name |-> "save", saves |-> 0, status |-> 0]

RECURSIVE Updated(_, _, _)
\* store after findByIdAndUpdate for the first n entries of ps: an entry whose
\* _id is stored sets the two discount fields of that document
Updated(store, ps, n) ==
    IF n = 0 THEN store
    ELSE LET before == Updated(store, ps, n - 1)
             u == ps[n]
         IN  IF u._id \in DOMAIN before
             THEN [before EXCEPT ![u._id] =
                      [@ EXCEPT !.discountPercentage = u.discount,
                                !.discountedPrice = u.optimizedPrice]]
             ELSE before

\* router.post('/save') of routes/pricing.js, run by the event loop while the
\* optimize handler is not running
SavePricing ==
    /\ pc \in {"start", "fetch", "done"}
    /\ fn.saves < MaxSaves
    /\ \E body \in SaveBodies :
          IF body.role # "walmart"
            THEN fn' = [fn EXCEPT !.saves = @ + 1, !.status = 401] /\ UNCHANGED db
          ELSE IF ~body.hasProducts
            THEN fn' = [fn EXCEPT !.saves = @ + 1, !.status = 400] /\ UNCHANGED db
          ELSE /\ db' = Updated(db, body.products, Len(body.products))
               /\ fn' = [fn EXCEPT !.saves = @ + 1,
                                   !.status = IF \E i \in 1..Len(body.products) :
                                                    ~MatchesObjectId(body.products[i]._id)
                                              THEN 500 ELSE 200]
    /\ UNCHANGED <<pc, req, products, numTrucks, res, stages, searchVars>>

NextFrame == Next \/ SavePricing

SpecFrame == InitFrame /\ [][NextFrame]_vars

\* C16: no step of an optimize request changes a stored product, whatever the
\* request's outcome; a stored document changes only in a step of the save
\* operation, and that step changes only its discount and discounted price.
C16_OptimizeLeavesStoreUnchanged ==
    [][/\ db' # db => fn'.saves = fn.saves + 1
       /\ DOMAIN db' = DOMAIN db
       /\ \A id \in DOMAIN db :
             /\ db'[id].price = db[id].price
             /\ db'[id].costPrice = db[id].costPrice
             /\ db'[id].operationalCost = db[id].operationalCost]_vars

\* an optimize request that worked on defaulted cost fields has been answered,
\* no save has run, and the stored documents are the initial ones
C16_Witness ==
    /\ pc = "done"
    /\ "fleet" \in stages
    /\ fn.saves = 0
    /\ db = PricedStore
    /\ \E i \in 1..Len(products) :
          products[i].costPrice # db[products[i]._id].costPrice

\* an optimize request has succeeded and the stored documents are the initial
\* ones
C16_WitnessSuccess ==
    /\ pc = "done"
    /\ res.status = 200
    /\ db = PricedStore

\* a save has changed a stored discount
C16_WitnessSave ==
    /\ fn.saves = 1
    /\ fn.status = 200
    /\ db # PricedStore


-----------------------------------------------------------------------------
(* Claims about the figures of the success response *)

Succeeded == pc = "done" /\ res.status = 200

\* C17: the reported totalProfit is the sum of the lines' profits with the
\* transport cost subtracted once, and finalMargin is that totalProfit divided
\* by totalRevenue.
C17_TotalProfitNetOfTransport ==
    Succeeded =>
        LET b == res.body
            n == Len(b.profit)
            lines == SumTo([i \in 1..n |->
                              (b.finalPrice[i] - p.supplierCosts[i] * Scale
                                 - p.operationalCosts[i] * Scale) * b.quantity[i]], n)
        IN  /\ b.transportCost.k = "num"
            /\ b.totalProfit = lines - b.transportCost.v * Scale
            /\ b.finalMargin.num * b.totalRevenue = b.totalProfit * b.finalMargin.den

\* finalMargin < 0.95 * targetMargin
BelowTarget(b) ==
    b.finalMargin.num * MarginScale * 100 < 95 * p.targetMargin * b.finalMargin.den

\* C18: a result whose finalMargin is below 0.95 * targetMargin is still a
\* success and carries a warning flag; a result at or above it carries none.
C18_LowMarginFlagged ==
    Succeeded => (BelowTarget(res.body) <=> "warning" \in DOMAIN res.body)


-----------------------------------------------------------------------------
(* SpecPricing: POST /api/pricing/optimize as implemented in                 *)
(* unnamed/part_007. The handler has no suspension point; its two loops are  *)
(* unrolled one iteration per step.                                          *)

PricingStage1Iterations == 1000
PricingMaxIterations == 1000
DefaultQuantity == 10

\* the handler's marginConstraint closure on the arrays held in p (times
\* MarginScale * Scale)
pricingMarginConstraint(d) ==
    SumTo([i \in 1..Len(d) |->
              p.quantities[i] * ((MarginScale - p.targetMargin) * p.retailPrices[i] * (Scale - d[i])
                                 - (p.supplierCosts[i] + p.operationalCosts[i]) * MarginScale * Scale)],
          Len(d))

\* a field of a posted product; 0 stands for a missing (falsy) one
PricingProducts ==
    {[price |-> 10, costPrice |-> 7, operationalCost |-> 1, quantity |-> 1],
     [price |-> 100, costPrice |-> 0, operationalCost |-> 0, quantity |-> 2],
     [price |-> 20, costPrice |-> 19, operationalCost |-> 0, quantity |-> 0],
     [price |-> 100, costPrice |-> 40, operationalCost |-> 10, quantity |-> MaxQty + 1]}

PricingMaxDiscounts == {0, Scale \div 40, Scale \div 2, Scale}

PricingRequests ==
    [role : {"walmart", "user"},
     hasProducts : BOOLEAN,
     products : SeqsUpTo(PricingProducts, MaxLines),
     targetMargin : {0, 2, MarginScale},
     maxDiscount : PricingMaxDiscounts]

\* lines 186-189: the arrays extracted from the posted products
PricingArrays(r) ==
    [set |-> TRUE,
     quantities |-> [i \in 1..Len(r.products) |->
                        IF r.products[i].quantity = 0 THEN DefaultQuantity
                        ELSE r.products[i].quantity],
     retailPrices |-> [i \in 1..Len(r.products) |-> r.products[i].price],
     supplierCosts |-> [i \in 1..Len(r.products) |->
                           IF r.products[i].costPrice = 0
                           THEN (r.products[i].price * 7) \div 10
                           ELSE r.products[i].costPrice],
     operationalCosts |-> [i \in 1..Len(r.products) |->
                              IF r.products[i].operationalCost = 0 THEN DefaultOperationalCost
                              ELSE r.products[i].operationalCost],
     targetMargin |-> r.targetMargin,
     maxDiscount |-> r.maxDiscount]

\* a request arrives
InitPricingRequest ==
    /\ pc = "pricing"
    /\ req \in PricingRequests
    /\ p = NoParams
    /\ c = 0
    /\ initialDiscounts = null
    /\ discounts = <<>>
    /\ delta = <<>>

\* Stage 2 is entered with a seed drawn from the grid
InitPricingSeed ==
    /\ pc = "pricing_pattern"
    /\ req \in {r \in PricingRequests :
                   /\ r.role = "walmart" /\ r.hasProducts /\ r.products # <<>>
                   /\ r.targetMargin = 2 /\ r.maxDiscount # 0}
    /\ p = PricingArrays(req)
    /\ c = 0
    /\ initialDiscounts \in {Vec(s) : s \in [1..Len(req.products) -> SeedGrid]}
    /\ discounts = initialDiscounts.v
    /\ delta = [i \in 1..Len(req.products) |-> Scale \div 20]

InitPricing ==
    /\ InitPricingRequest \/ InitPricingSeed
    /\ k = 0
    /\ bestDiscounts = null
    /\ bestObjectiveValue = NegInfinity
    /\ attempt = 0
    /\ iteration = 0
    /\ sampled = {}
    /\ db = <<>>
    /\ products = <<>>
    /\ numTrucks = NaN
    /\ res = NoRes
    /\ stages = {}
    /\ fn = NoCall

\* lines 177-215 (and walmartAuth before them)
PricingStart ==
    /\ pc = "pricing"
    /\ IF req.role # "walmart"
         THEN Respond(401, "Not authorized as Walmart") /\ pc' = "done"
              /\ UNCHANGED <<p, c, k, bestDiscounts, bestObjectiveValue>>
       ELSE IF ~req.hasProducts
         THEN Respond(400, "Products data is required") /\ pc' = "done"
              /\ UNCHANGED <<p, c, k, bestDiscounts, bestObjectiveValue>>
       ELSE /\ p' = PricingArrays(req)
            /\ c' = (7 * Scale) \div 10
            /\ k' = 0
            /\ bestDiscounts' = null
            /\ bestObjectiveValue' = NegInfinity
            /\ pc' = "pricing_chaos"
            /\ UNCHANGED res
    /\ UNCHANGED <<req, db, products, numTrucks, stages, attempt, initialDiscounts,
                   discounts, delta, iteration, sampled, fn>>

\* lines 217-237: one iteration of Stage 1, the same discount for every product
PricingChaosIter ==
    /\ pc = "pricing_chaos"
    /\ k < PricingStage1Iterations
    /\ LET c1 == logisticMap(c)
           cand == [i \in 1..Len(req.products) |-> (p.maxDiscount * c1) \div Scale]
           objValue == SumTo([j \in 1..Len(cand) |-> p.quantities[j] * cand[j]], Len(cand))
       IN  /\ c' = c1
           /\ IF pricingMarginConstraint(cand) >= 0 /\ GreaterThan(objValue, bestObjectiveValue)
              THEN bestObjectiveValue' = Num(objValue) /\ bestDiscounts' = Vec(cand)
              ELSE UNCHANGED <<bestObjectiveValue, bestDiscounts>>
    /\ k' = k + 1
    /\ UNCHANGED <<pc, routeVars, p, attempt, initialDiscounts, discounts, delta,
                   iteration, sampled, fn>>


\* the success response of the pricing route for the discounts d (prices,
\* profits and revenue times Scale)
PricingResult(message, d) ==
    LET n == Len(p.retailPrices)
        finalPrices == [i \in 1..n |-> p.retailPrices[i] * (Scale - d[i])]
        finalProfits == [i \in 1..n |->
                           (finalPrices[i] - p.supplierCosts[i] * Scale
                              - p.operationalCosts[i] * Scale) * p.quantities[i]]
    IN  [status |-> 200, msg |-> message,
         body |-> [success |-> TRUE,
                   discount |-> d,
                   discountedPrice |-> finalPrices,
                   profit |-> finalProfits,
                   totalProfit |-> SumTo(finalProfits, n),
                   totalRevenue |-> SumTo([i \in 1..n |-> finalPrices[i] * p.quantities[i]], n)]]

\* lines 239-268: Stage 1 is over; without a feasible candidate the zero
\* discounts are returned, otherwise Stage 2 starts from the best candidate
PricingAfterChaos ==
    /\ pc = "pricing_chaos"
    /\ k >= PricingStage1Iterations
    /\ IF bestDiscounts.isNull
       THEN /\ res' = PricingResult("No feasible discount solution found within constraints",
                                    [i \in 1..Len(req.products) |-> 0])
            /\ pc' = "done"
            /\ UNCHANGED <<initialDiscounts, discounts, delta, iteration>>
       ELSE /\ initialDiscounts' = bestDiscounts
            /\ discounts' = bestDiscounts.v
            /\ delta' = [i \in 1..Len(req.products) |-> Scale \div 20]
            /\ iteration' = 0
            /\ pc' = "pricing_pattern"
            /\ UNCHANGED res
    /\ UNCHANGED <<req, db, products, numTrucks, stages, p, c, k, bestDiscounts,
                   bestObjectiveValue, attempt, sampled, fn>>

RECURSIVE PricingSweep(_, _, _)
\* lines 274-302: the first coordinate from i on whose raised or lowered value
\* does not violate the constraint is moved, and the sweep stops there
PricingSweep(Y, dl, i) ==
    IF i > Len(Y) THEN [Y |-> Y, improved |-> FALSE]
    ELSE LET raised == Y[i] + dl[i]
             lowered == Y[i] - dl[i]
             up == [Y EXCEPT ![i] = IF raised > p.maxDiscount THEN p.maxDiscount ELSE raised]
             down == [Y EXCEPT ![i] = IF lowered < 0 THEN 0 ELSE lowered]
         IN  IF Y[i] < p.maxDiscount /\ ~(pricingMarginConstraint(up) < 0)
               THEN [Y |-> up, improved |-> TRUE]
             ELSE IF Y[i] > 0 /\ ~(pricingMarginConstraint(down) < 0)
               THEN [Y |-> down, improved |-> TRUE]
             ELSE PricingSweep(Y, dl, i + 1)

\* lines 270-315: one evaluation of the Stage-2 loop
PricingPatternIter ==
    /\ pc = "pricing_pattern"
    /\ IF iteration >= PricingMaxIterations
       THEN pc' = "pricing_final" /\ UNCHANGED <<discounts, delta, iteration>>
       ELSE LET sw == PricingSweep(discounts, delta, 1)
                newDelta == IF sw.improved THEN delta
                            ELSE [i \in 1..Len(delta) |-> delta[i] \div 2]
            IN  /\ discounts' = sw.Y
                /\ delta' = newDelta
                /\ IF ~sw.improved /\ BelowEpsilon(MaxDelta(newDelta))
                   THEN pc' = "pricing_final" /\ UNCHANGED iteration
                   ELSE pc' = "pricing_pattern" /\ iteration' = iteration + 1
    /\ UNCHANGED <<routeVars, p, c, k, bestDiscounts, bestObjectiveValue, attempt,
                   initialDiscounts, sampled, fn>>

\* lines 317-349
PricingFinalize ==
    /\ pc = "pricing_final"
    /\ res' = PricingResult("Price optimization completed", discounts)
    /\ pc' = "done"
    /\ UNCHANGED <<req, db, products, numTrucks, stages, searchVars, fn>>

NextPricing ==
    \/ PricingStart
    \/ PricingChaosIter
    \/ PricingAfterChaos
    \/ PricingPatternIter
    \/ PricingFinalize

SpecPricing == InitPricing /\ [][NextPricing]_vars

-----------------------------------------------------------------------------
(* Claims about the pricing route *)

PricingSucceeded == pc = "done" /\ res.status = 200

\* C19: the pricing route never answers success with a discount vector that
\* violates its margin constraint; when Stage 1 finds no feasible candidate
\* and the zero vector is infeasible too, it does not return success.
C19_PricingSuccessIsFeasible ==
    (PricingSucceeded /\ k = PricingStage1Iterations) =>
        pricingMarginConstraint(res.body.discount) >= 0

\* C20: started from a feasible seed, Stage 2 of the pricing route ends with a
\* vector that is feasible, within [0, maxDiscount] in every component, and
\* whose objective is at least the seed's.
C20_PricingRefinementImproves ==
    (pc = "pricing_final" /\ pricingMarginConstraint(initialDiscounts.v) >= 0
        /\ InBounds(initialDiscounts.v)) =>
        /\ pricingMarginConstraint(discounts) >= 0
        /\ InBounds(discounts)
        /\ objective(discounts, p.quantities) >= objective(initialDiscounts.v, p.quantities)


-----------------------------------------------------------------------------
(* Claims about one iteration of patternSearch *)

\* a step that runs the body of the loop once
PatternBody == pc = "pattern" /\ iteration < p.maxIterations

\* the vector after the coordinate sweep of the iteration about to run, and
\* the pattern-move vector built from it
SweepY == Sweep(discounts, FALSE, delta, 1).Y
SweepImproved == Sweep(discounts, FALSE, delta, 1).improved
PatternXNew == [i \in 1..Len(discounts) |-> clamp(2 * SweepY[i] - discounts[i], 0, p.maxDiscount)]

\* C21: in an iteration that accepted a coordinate move the current vector
\* becomes the post-sweep vector Y or the pattern-move vector, its objective
\* strictly increases and it is feasible; in an iteration that accepted none
\* the current vector is unchanged; the pattern-move vector replaces Y only
\* when it is feasible and strictly better than Y.
C21_IterationKeepsOrImproves ==
    [][PatternBody =>
          /\ SweepImproved =>
                /\ discounts' = SweepY \/ discounts' = PatternXNew
                /\ objective(discounts', p.quantities) > objective(discounts, p.quantities)
                /\ GE0(MCp(discounts'))
          /\ ~SweepImproved => discounts' = discounts
          /\ discounts' # discounts => objective(discounts', p.quantities) > objective(discounts, p.quantities)
          /\ (discounts' # SweepY) =>
                /\ GE0(MCp(discounts'))
                /\ objective(discounts', p.quantities) > objective(SweepY, p.quantities)]_vars

\* after the first iteration a pattern move has doubled an accepted step
C21_Witness ==
    /\ pc = "pattern"
    /\ iteration = 1
    /\ \E i \in 1..Len(discounts) :
          discounts[i] = initialDiscounts.v[i] + 2 * delta[i]
    /\ GE0(MCp(discounts))

\* C22: the step sizes change only by halving every delta[i] together, only
\* in an iteration without an improvement; they are all equal and equal to
\* 0.05 / 2^k for some k >= 0.
C22_StepsHalvedTogether ==
    /\ [](InPattern =>
            \A i \in 1..Len(delta) :
               /\ delta[i] = delta[1]
               /\ \E h \in 0..16 : delta[i] * (2 ^ h) = Scale \div 20)
    /\ [][PatternBody =>
             /\ SweepImproved => delta' = delta
             /\ delta' # delta =>
                   /\ ~SweepImproved
                   /\ \A i \in 1..Len(delta) : 2 * delta'[i] = delta[i]]_vars

\* the steps have been halved more than once and the search goes on
C22_Witness ==
    /\ pc = "pattern"
    /\ Len(delta) > 1
    /\ 4 * delta[1] <= Scale \div 20
    /\ discounts # initialDiscounts.v


\* the largest step size is below epsilon = 1e-4
StepsBelowEpsilon == \A i \in 1..Len(delta) : delta[i] * 10000 < Scale

\* C23: patternSearch always terminates: it runs the loop body at most
\* maxIterations times, it goes on only while max(delta) >= epsilon and so
\* stops at the end of the first iteration that leaves max(delta) < epsilon,
\* and with delta = 0.05 and epsilon = 1e-4 the steps are halved at most 9
\* times.
C23_PatternSearchTerminates ==
    /\ [](InPattern => iteration <= p.maxIterations)
    /\ [](pc = "pattern" /\ Len(delta) > 0 => ~StepsBelowEpsilon)
    /\ [](pc = "pattern_ret" => StepsBelowEpsilon \/ iteration = p.maxIterations)
    /\ [](pc = "pattern_ret" /\ StepsBelowEpsilon => iteration < p.maxIterations)
    /\ [](InPattern => \A i \in 1..Len(delta) : delta[i] * (2 ^ 9) >= Scale \div 20)
    /\ (pc = "pattern") ~> (pc = "pattern_ret")

\* the search returned after nine halvings with budget left and a vector that
\* moved
C23_Witness ==
    /\ pc = "pattern_ret"
    /\ Len(delta) > 0
    /\ \A i \in 1..Len(delta) : delta[i] * (2 ^ 9) = Scale \div 20
    /\ iteration < p.maxIterations
    /\ iteration > 9

\* the search returned because the budget of two iterations ran out
C23_WitnessBudget ==
    /\ pc = "pattern_ret"
    /\ p.maxIterations = 2
    /\ iteration = 2
    /\ ~StepsBelowEpsilon


-----------------------------------------------------------------------------
(* Claims about the outcome of POST /api/logistics/optimize *)

\* the five outcome categories of a response
InputRejection(r) ==
    /\ r.status \in {400, 403}
    /\ r.msg \notin {"Optimization infeasible with current parameters",
                     "No feasible solution found in initialization stage"}
    /\ r.body = NoBody
InfeasibleAtZero(r) ==
    /\ r.status = 400
    /\ r.msg = "Optimization infeasible with current parameters"
    /\ r.body = NoBody
NoFeasibleInitialization(r) ==
    /\ r.status = 400
    /\ r.msg = "No feasible solution found in initialization stage"
    /\ r.body = NoBody
ComputationError(r) == r.status = 500 /\ r.body = NoBody
Success(r) == r.status = 200 /\ r.body # NoBody /\ r.body.success

Categories(r) ==
    {n \in 1..5 : CASE n = 1 -> InputRejection(r)
                    [] n = 2 -> InfeasibleAtZero(r)
                    [] n = 3 -> NoFeasibleInitialization(r)
                    [] n = 4 -> ComputationError(r)
                    [] n = 5 -> Success(r)}

C24_WitnessRejection == pc = "done" /\ InputRejection(res) /\ res.status = 400
C24_WitnessError == pc = "done" /\ ComputationError(res)
C24_WitnessSuccess == pc = "done" /\ Success(res)


-----------------------------------------------------------------------------
(* Claims about the figures of the success response, continued *)

-----------------------------------------------------------------------------
(* Claims about the pairing of request arrays and product records *)

\* C26 as stated: at every position i the retail price, supplier cost and
\* operational cost used by the optimization are those of the product named
\* by productIds[i], whatever order the store returns the records in.
C26_ArraysFollowProductIds ==
    (req # NoReq /\ p.set) =>
        \A i \in 1..Len(req.productIds) :
            LET doc == Normalised(db[req.productIds[i]])
            IN  /\ p.retailPrices[i] = doc.price
                /\ p.supplierCosts[i] = doc.costPrice
                /\ p.operationalCosts[i] = doc.operationalCost


-----------------------------------------------------------------------------
(* Claims about the seed handed to patternSearch *)

\* chaoticInitialization was called by the handler and has returned
SeedReturned ==
    /\ req # NoReq
    /\ "chaos" \in stages
    /\ pc \in {"chaos_ret", "pattern", "pattern_ret", "done"}

\* C27 as stated: for every request with finite numeric inputs that passes
\* the zero-discount check, chaoticInitialization returns a non-null feasible
\* vector, the answer 'No feasible solution found in initialization stage' is
\* never sent and patternSearch is only entered with a feasible seed.
C27_InitializationNeverFails ==
    /\ SeedReturned =>
          /\ ~initialDiscounts.isNull
          /\ GE0(MCp(initialDiscounts.v))
    /\ res.msg # "No feasible solution found in initialization stage"


-----------------------------------------------------------------------------
(* Claims about the final margin *)

\* C28 as stated: on every success response the reported finalMargin is at
\* least targetMargin, so the branch for a final margin below 0.95 *
\* targetMargin is never taken.
C28_FinalMarginMeetsTarget ==
    Succeeded =>
        /\ res.body.finalMargin.num * MarginScale >= p.targetMargin * res.body.finalMargin.den
        /\ ~BelowTarget(res.body)


-----------------------------------------------------------------------------
(* Claims about the vector patternSearch returns *)

\* patternSearch returned because max(delta) < epsilon
Converged == pc = "pattern_ret" /\ Len(delta) > 0 /\ StepsBelowEpsilon

\* d with component i raised by twice the final step size, clamped
Raised(d, i) == [d EXCEPT ![i] = clamp(d[i] + 2 * delta[i], 0, p.maxDiscount)]

\* C29 as stated: when patternSearch stops because max(delta) < epsilon, for
\* each i either d[i] = maxDiscount or raising d[i] alone by twice the final
\* step size (clamped to maxDiscount) makes the margin constraint negative.
C29_LocallyMaximal ==
    Converged =>
        \A i \in 1..Len(discounts) :
            \/ discounts[i] = p.maxDiscount
            \/ LT0(MCp(Raised(discounts, i)))


-----------------------------------------------------------------------------
(* Claims about the direction of the moves of patternSearch *)

RECURSIVE NegativeAccepted(_, _, _)
\* the sweep of lines 183-213 from coordinate i on accepts a negative probe
NegativeAccepted(Y, dl, i) ==
    IF i > Len(Y) THEN FALSE
    ELSE LET fBase == objective(Y, p.quantities)
             YPos == [Y EXCEPT ![i] = clamp(Y[i] + dl[i], 0, p.maxDiscount)]
             YNeg == [Y EXCEPT ![i] = clamp(Y[i] - dl[i], 0, p.maxDiscount)]
         IN  IF AcceptMove(YPos, fBase) THEN NegativeAccepted(YPos, dl, i + 1)
             ELSE IF AcceptMove(YNeg, fBase) THEN TRUE
             ELSE NegativeAccepted(Y, dl, i + 1)

PositiveQuantities == \A i \in 1..Len(p.quantities) : p.quantities[i] > 0

C30_WitnessClamped ==
    /\ InPattern /\ PositiveQuantities
    /\ \E i, j \in 1..Len(discounts) :
          /\ initialDiscounts.v[i] > p.maxDiscount
          /\ discounts[i] = p.maxDiscount
          /\ discounts[j] > initialDiscounts.v[j]


=============================================================================
